---- MODULE Spec2Model ----
(***************************************************************************)
(* A model of the PAGE_BOT event routing and deduplication core:           *)
(*   - MessageTracker (utils/trackers.js): the windowed dedup cache and    *)
(*     the daily counters;                                                 *)
(*   - the webhook processing loop of the server (processWebhookEvent,     *)
(*     processMessagingEvent, processFeedEvent);                           *)
(*   - the handlers (handleMessage, handlePostback, handleComment);        *)
(*   - PluginLoader (load, duplicate detection, unload, reloadAll).        *)
(* Wall-clock time is counted in minutes.                                  *)
(***************************************************************************)
EXTENDS Integers, Sequences, FiniteSets, TLC

VARIABLES
  now,             \* Date.now(), in minutes
  messageTracker,  \* the server's MessageTracker instance
  lastCheck,       \* observer: the most recent dedup check and its outcome
  recorded,        \* observer: <<kind, key>> -> time and expiry of the last check that returned false
  config,          \* config.json, as far as the core reads it
  disk,            \* the plugin directories: type -> plugin files in readdir order
  pluginLoader,    \* the PluginLoader singleton
  initialized,     \* initialize() has been called
  reloads,         \* number of reloadAll() calls made so far
  loads,           \* load loops suspended in installDependencies
  warnings,        \* observer: the loader's logger.warn lines
  fileEvents,      \* number of watcher events handled so far
  lastFileEvent,   \* observer: the watcher event handled last
  today,           \* the date in config.bot.timezone, as a day number
  botState,        \* the server's botState counters
  users,           \* userStore: uid -> user record
  flows,           \* webhook deliveries: id -> progress of processWebhookEvent
  cpu,             \* the delivery whose synchronous code is running, 0 when the event loop is idle
  lastEvent,       \* observer: the event whose processing ended last
  request          \* the call of FacebookAPI.request in progress

trackerVars == <<now, messageTracker, lastCheck, recorded>>
loaderVars == <<config, disk, pluginLoader, initialized, reloads, loads, warnings, fileEvents, lastFileEvent>>
dispatchVars == <<today, botState, users, flows, cpu, lastEvent, request>>

vars == <<now, messageTracker, lastCheck, recorded,
          config, disk, pluginLoader, initialized, reloads, loads, warnings, fileEvents, lastFileEvent,
          today, botState, users, flows, cpu, lastEvent, request>>

-----------------------------------------------------------------------------
(* Bounds of the exploration *)

MaxTime == 6     \* the clock stops advancing here
MaxCount == 2    \* cap on the duplicates counter
MaxReloads == 2  \* cap on the number of reloadAll() calls
MaxDeliveries == 2  \* webhook POSTs received
MaxEvents == 2   \* events received, over all deliveries
MaxFileEvents == 3  \* watcher events handled
MaxChanges == 1  \* feed changes per delivery
MaxDays == 2     \* date changes in the bot's timezone

(* Program constants *)

ExpiryMinutes == 5   \* 300000 ms
Retries == 3         \* the default of request's retries parameter
BackoffMs == 1000    \* this.delay(1000)

-----------------------------------------------------------------------------
(* Input domains *)

SenderIds == {"u1", "u1_7"}
Timestamps == {1}
CommentIds == {"u1_1"}
TrackerPayloads == {[t |-> "num", v |-> 7]}

EmptyMap == [k \in {} |-> 0]

\* JSON.stringify of a parsed payload value
JSONstringify(p) ==
  CASE p.t = "num" -> ToString(p.v)
    [] p.t = "null" -> "null"
    [] p.t = "str" -> "\"" \o p.v \o "\""
    [] p.t = "obj" -> "{\"action\":\"" \o p.action \o "\",\"choice\":\"" \o p.choice \o "\"}"

\* template-literal conversion of a timestamp; a negative value stands for a
\* timestamp that is missing from the event (undefined)
Str(x) == IF x < 0 THEN "undefined" ELSE ToString(x)

-----------------------------------------------------------------------------
(* MessageTracker *)

ZeroCounts == [messages |-> 0, comments |-> 0, postbacks |-> 0, duplicates |-> 0]

\* lastReset is the date at construction
NewMessageTracker ==
  [ messageHistory  |-> EmptyMap,
    commentHistory  |-> EmptyMap,
    postbackHistory |-> EmptyMap,
    dailyCounts     |-> ZeroCounts,
    lastReset       |-> 0 ]

resetDailyCounters(mt) == [mt EXCEPT !.dailyCounts = ZeroCounts]

checkDailyReset(mt, date) ==
  IF date # mt.lastReset
    THEN [resetDailyCounters(mt) EXCEPT !.lastReset = date]
    ELSE mt

track(mt, senderId, timestamp, type, date) ==
  LET m == checkDailyReset(mt, date) IN
  CASE type = "message"  -> [m EXCEPT !.dailyCounts.messages = @ + 1]
    [] type = "comment"  -> [m EXCEPT !.dailyCounts.comments = @ + 1]
    [] type = "postback" -> [m EXCEPT !.dailyCounts.postbacks = @ + 1]
    [] OTHER             -> m

trackComment(mt, commentId, date) ==
  [checkDailyReset(mt, date) EXCEPT !.dailyCounts.comments = @ + 1]

trackPostback(mt, date) ==
  [checkDailyReset(mt, date) EXCEPT !.dailyCounts.postbacks = @ + 1]

\* getStats(): the four daily counters as they are returned
getStats(mt) == mt.dailyCounts

\* the methods class MessageTracker defines
MessageTrackerMethods ==
  { "isDuplicate", "isDuplicateComment", "isDuplicatePostback", "track", "trackComment",
    "trackPostback", "cleanOldEntries", "checkDailyReset", "resetDailyCounters",
    "getTodayCount", "getTodayCommentCount", "getTodayPostbackCount", "getDuplicateCount",
    "getStats" }

MapSet(m, k, v) == [x \in DOMAIN m \cup {k} |-> IF x = k THEN v ELSE m[x]]
MapDelete(m, ks) == [x \in DOMAIN m \ ks |-> m[x]]

Expired(h, t) == {k \in DOMAIN h : h[k].expiresAt < t}

cleanOldEntries(mt, t) ==
  [mt EXCEPT !.messageHistory  = MapDelete(@, Expired(@, t)),
             !.commentHistory  = MapDelete(@, Expired(@, t)),
             !.postbackHistory = MapDelete(@, Expired(@, t))]

MessageKey(senderId, timestamp) == senderId \o "_" \o Str(timestamp)

PostbackKey(senderId, payload, timestamp) ==
  senderId \o "_" \o JSONstringify(payload) \o "_" \o Str(timestamp)

isDuplicate_NoRecord(mt, senderId, timestamp, t) ==
  LET key == MessageKey(senderId, timestamp) IN
  IF key \in DOMAIN mt.messageHistory
    THEN [ret |-> TRUE, mt |-> [mt EXCEPT !.dailyCounts.duplicates = @ + 1]]
    ELSE [ret |-> FALSE, mt |-> cleanOldEntries(mt, t)]

isDuplicate(mt, senderId, timestamp, t) ==
  LET key == MessageKey(senderId, timestamp) IN
  IF key \in DOMAIN mt.messageHistory
    THEN [ret |-> TRUE, mt |-> [mt EXCEPT !.dailyCounts.duplicates = @ + 1]]
    ELSE [ret |-> FALSE,
          mt  |-> [cleanOldEntries(mt, t) EXCEPT !.messageHistory =
                     MapSet(@, key, [timestamp |-> t, type |-> "message",
                                     expiresAt |-> t + ExpiryMinutes])]]

isDuplicateComment_SharedHistory(mt, commentId, t) ==
  IF commentId \in DOMAIN mt.commentHistory \cup DOMAIN mt.messageHistory
    THEN [ret |-> TRUE, mt |-> [mt EXCEPT !.dailyCounts.duplicates = @ + 1]]
    ELSE [ret |-> FALSE,
          mt  |-> [mt EXCEPT !.commentHistory =
                     MapSet(@, commentId, [timestamp |-> t, expiresAt |-> t + ExpiryMinutes])]]

isDuplicateComment(mt, commentId, t) ==
  IF commentId \in DOMAIN mt.commentHistory
    THEN [ret |-> TRUE, mt |-> [mt EXCEPT !.dailyCounts.duplicates = @ + 1]]
    ELSE [ret |-> FALSE,
          mt  |-> [mt EXCEPT !.commentHistory =
                     MapSet(@, commentId, [timestamp |-> t, expiresAt |-> t + ExpiryMinutes])]]

isDuplicatePostback(mt, senderId, payload, timestamp, t) ==
  LET key == PostbackKey(senderId, payload, timestamp) IN
  IF key \in DOMAIN mt.postbackHistory
    THEN [ret |-> TRUE, mt |-> [mt EXCEPT !.dailyCounts.duplicates = @ + 1]]
    ELSE [ret |-> FALSE,
          mt  |-> [mt EXCEPT !.postbackHistory =
                     MapSet(@, key, [timestamp |-> t, expiresAt |-> t + ExpiryMinutes])]]

History(mt, kind) ==
  CASE kind = "message"  -> mt.messageHistory
    [] kind = "comment"  -> mt.commentHistory
    [] kind = "postback" -> mt.postbackHistory

-----------------------------------------------------------------------------
(* Observation of dedup checks *)

NoCheck == [kind |-> "none"]

\* The record of one dedup check of `kind` with `key` whose result is r.
Observe(kind, key, r) ==
  [ kind      |-> kind,
    key       |-> key,
    at        |-> now,
    ret       |-> r.ret,
    prior     |-> <<kind, key>> \in DOMAIN recorded,
    priorExp  |-> IF <<kind, key>> \in DOMAIN recorded THEN recorded[<<kind, key>>].expiresAt ELSE 0,
    others    |-> {p[1] : p \in {q \in DOMAIN recorded : q[2] = key /\ q[1] # kind}},
    dupBefore |-> messageTracker.dailyCounts.duplicates,
    dupAfter  |-> r.mt.dailyCounts.duplicates ]

Checked(kind, key, r) ==
  /\ messageTracker.dailyCounts.duplicates < MaxCount
  /\ messageTracker' = r.mt
  /\ lastCheck' = Observe(kind, key, r)
  /\ recorded' = IF r.ret THEN recorded
                 ELSE MapSet(recorded, <<kind, key>>, [at |-> now, expiresAt |-> now + ExpiryMinutes])
  /\ UNCHANGED now
  /\ UNCHANGED loaderVars
  /\ UNCHANGED dispatchVars

CheckMessage ==
  \E s \in SenderIds, ts \in Timestamps :
    Checked("message", MessageKey(s, ts), isDuplicate(messageTracker, s, ts, now))

CheckComment ==
  \E c \in CommentIds :
    Checked("comment", c, isDuplicateComment(messageTracker, c, now))

CheckPostback ==
  \E p \in TrackerPayloads, ts \in Timestamps :
    Checked("postback", PostbackKey("u1", p, ts), isDuplicatePostback(messageTracker, "u1", p, ts, now))

Tick ==
  /\ now < MaxTime
  /\ now' = now + 1
  /\ UNCHANGED <<messageTracker, lastCheck, recorded>>
  /\ UNCHANGED loaderVars
  /\ UNCHANGED dispatchVars

-----------------------------------------------------------------------------
(* Plugin modules *)

Range(q) == {q[i] : i \in DOMAIN q}

\* A command module: module.exports = { config: {...}, start, ... }
CommandModule(name, aliases, category, deps) ==
  [ config       |-> [name |-> name, aliases |-> aliases, category |-> category,
                      dependencies |-> deps],
    start        |-> "function" ]

\* A command module that also exports a top-level dependencies list.
CommandModuleWithDeps(name, aliases, category, deps) ==
  [ config       |-> [name |-> name, aliases |-> aliases, category |-> category,
                      dependencies |-> <<>>],
    start        |-> "function",
    dependencies |-> deps ]

\* A postback module: module.exports = { payload, start }
PostbackModule(payload) == [payload |-> payload, start |-> "function"]

\* A comment module: module.exports = { name, keywords, run }, a plain object
CommentModule(name) == [name |-> name, run |-> "function", constructorName |-> "Object"]

File(file, module) == [file |-> file, module |-> module]

PingFile     == File("ping", CommandModule("ping", <<"pong", "status">>, "utility", <<>>))
SetbalFile   == File("setbal", CommandModule("setbal", <<"setbalance">>, "admin", <<>>))
\* a second file declaring the command name "ping" with other aliases
PingerFile   == File("pinger", CommandModule("ping", <<"alive">>, "utility", <<>>))
\* a copy of ping.js under another file name
Ping2File    == File("ping2", CommandModule("ping", <<"status", "pong">>, "utility", <<>>))
\* a module without a start function
BrokenFile   == File("broken", [config |-> [name |-> "broken", aliases |-> <<>>, category |-> "general",
                                            dependencies |-> <<>>]])
\* a command whose config.name is the empty string
BlankFile    == File("blank", CommandModule("", <<>>, "general", <<>>))
BalanceFile  == File("balance", CommandModule("balance", <<"bal", "wallet">>, "games", <<>>))
\* a command declared with capital letters in its name and alias
EchoFile     == File("echo", CommandModule("Echo", <<"Say">>, "utility", <<>>))
\* a command of another name that declares the alias "status" as ping does
UptimeFile   == File("uptime", CommandModule("uptime", <<"status">>, "utility", <<>>))
\* a command that asks for an npm package to be installed
FetchFile    == File("fetch", CommandModuleWithDeps("fetch", <<>>, "general", <<"axios">>))
\* a second command with a package to install
ScrapeFile   == File("scrape", CommandModuleWithDeps("scrape", <<>>, "general", <<"cheerio">>))

HelpCategoryFile == File("helpCategory", PostbackModule([t |-> "str", v |-> "HELP_CATEGORY_"]))
RpsFile          == File("rps", PostbackModule([t |-> "str", v |-> "GAME_RPS"]))
\* a postback plugin whose payload is a number
LuckyFile        == File("lucky", PostbackModule([t |-> "num", v |-> 7]))

DmFile    == File("dmPlugin", CommentModule("DM Plugin"))
\* dmPlugin.js saved with another name
DmEditedFile == File("dmPlugin", CommentModule("DM Plugin 2"))
GamesFile == File("gamesInvite", CommentModule("Games Invitation"))

PluginTypes == <<"commands", "postbacks", "comments">>

-----------------------------------------------------------------------------
(* PluginLoader *)

NewPluginLoader ==
  [ plugins    |-> [commands |-> <<>>, postbacks |-> <<>>, comments |-> <<>>],
    duplicates |-> {} ]

\* A Map keeps insertion order: set() on a present key replaces the value in place.
OMapHas(m, k) == \E i \in DOMAIN m : m[i].key = k
OMapGet(m, k) == m[CHOOSE i \in DOMAIN m : m[i].key = k].value
OMapSet(m, k, v) ==
  IF OMapHas(m, k)
    THEN [i \in DOMAIN m |-> IF m[i].key = k THEN [key |-> k, value |-> v] ELSE m[i]]
    ELSE Append(m, [key |-> k, value |-> v])
OMapDelete(m, k) == SelectSeq(m, LAMBDA e : e.key # k)
OMapValues(m) == [i \in DOMAIN m |-> m[i].value]

validatePlugin(plugin, type) ==
  CASE type = "commands"  -> /\ "config" \in DOMAIN plugin
                             /\ "name" \in DOMAIN plugin.config
                             /\ "start" \in DOMAIN plugin
    [] type = "postbacks" -> /\ "payload" \in DOMAIN plugin
                             /\ "start" \in DOMAIN plugin
    [] type = "comments"  -> "run" \in DOMAIN plugin
    [] OTHER              -> FALSE

\* The alias strings of the model in Array.prototype.sort() order (UTF-16 code units)
SortedStrings == <<"Say", "alive", "bal", "pong", "setbalance", "status", "wallet">>

ArraySort(a) == SelectSeq(SortedStrings, LAMBDA x : x \in Range(a))

RECURSIVE ArrayJoin(_, _)
ArrayJoin(a, sep) ==
  IF a = <<>> THEN ""
  ELSE IF Len(a) = 1 THEN a[1]
  ELSE a[1] \o sep \o ArrayJoin(Tail(a), sep)

\* aliases.sort() sorts the module's own array in place
SortAliasesInPlace(plugin, type) ==
  IF type = "commands" /\ "aliases" \in DOMAIN plugin.config
    THEN [plugin EXCEPT !.config.aliases = ArraySort(@)]
    ELSE plugin

\* the own properties of an object, copied into an object literal
Spread(plugin) ==
  IF "constructorName" \in DOMAIN plugin THEN [plugin EXCEPT !.constructorName = "Object"] ELSE plugin

getDuplicateKey(plugin, type) ==
  CASE type = "commands"  ->
         type \o ":" \o plugin.config.name \o ":" \o
           ArrayJoin(ArraySort(IF "aliases" \in DOMAIN plugin.config
                               THEN plugin.config.aliases ELSE <<>>), ",")
    [] type = "postbacks" -> type \o ":" \o JSONstringify(plugin.payload)
    [] type = "comments"  -> type \o ":" \o plugin.constructorName

\* { ...plugin, meta }: the registered record is a plain object holding the
\* module's own properties
registerPlugin(pl, plugin, type, name) ==
  [pl EXCEPT !.plugins[type] = OMapSet(@, name, [module |-> Spread(plugin),
                                                 meta |-> [name |-> name, type |-> type]]),
             !.duplicates = @ \cup {getDuplicateKey(plugin, type)}]

\* unloadPlugin: the key is computed from the registered record
unloadPlugin(pl, name, type) ==
  IF OMapHas(pl.plugins[type], name)
    THEN LET plugin == OMapGet(pl.plugins[type], name).module
             duplicateKey == getDuplicateKey(plugin, type)
         IN [pl EXCEPT !.duplicates = @ \ {duplicateKey},
                       !.plugins[type] = OMapDelete(@, name)]
    ELSE pl

\* installDependencies runs npm only for a non-empty list
NeedsInstall(plugin) ==
  /\ config.autoInstallDeps
  /\ "dependencies" \in DOMAIN plugin
  /\ plugin.dependencies # <<>>

\* loadPlugin up to its first suspension. st = [pl, warnings]; the result adds
\* `pending`: the module whose installDependencies is awaited, if any.
loadPlugin(st, f, type) ==
  IF ~validatePlugin(f.module, type)
    THEN [pl |-> st.pl, pending |-> <<>>,
          warnings |-> Append(st.warnings, [what |-> "invalid", type |-> type, file |-> f.file])]
  ELSE LET plugin == SortAliasesInPlace(f.module, type)
           duplicateKey == getDuplicateKey(plugin, type)
       IN IF duplicateKey \in st.pl.duplicates
            THEN [pl |-> st.pl, pending |-> <<>>,
                  warnings |-> Append(st.warnings,
                     [what |-> "duplicate", type |-> type, file |-> f.file, key |-> duplicateKey])]
          ELSE IF NeedsInstall(plugin)
            THEN [pl |-> st.pl, pending |-> <<[file |-> f.file, module |-> plugin]>>,
                  warnings |-> st.warnings]
          ELSE [pl |-> registerPlugin(st.pl, plugin, type, f.file), pending |-> <<>>,
                warnings |-> st.warnings]

\* loadPluginsOfType: the for loop over the directory listing, run until it
\* finishes or suspends. The result carries the files not yet visited.
RECURSIVE loadPluginsOfType(_, _, _)
loadPluginsOfType(st, type, files) ==
  IF files = <<>>
    THEN [pl |-> st.pl, warnings |-> st.warnings, pending |-> <<>>, rest |-> <<>>]
  ELSE LET r == loadPlugin(st, Head(files), type)
       IN IF r.pending # <<>>
            THEN [pl |-> r.pl, warnings |-> r.warnings, pending |-> r.pending, rest |-> Tail(files)]
            ELSE loadPluginsOfType([pl |-> r.pl, warnings |-> r.warnings], type, Tail(files))

\* loadAllPlugins: the three loops are started one after the other; each runs
\* to its end or to its first suspension. `susp` collects the suspended loops.
RECURSIVE loadAllPlugins(_, _, _, _)
loadAllPlugins(st, rid, types, susp) ==
  IF types = <<>>
    THEN [pl |-> st.pl, warnings |-> st.warnings, susp |-> susp]
  ELSE LET type == Head(types)
           r == loadPluginsOfType(st, type, disk[type])
           s == IF r.pending = <<>> THEN susp
                ELSE susp \cup {[rid |-> rid, type |-> type, pending |-> r.pending[1], rest |-> r.rest]}
       IN loadAllPlugins([pl |-> r.pl, warnings |-> r.warnings], rid, Tail(types), s)

getPluginsByType(pl, type) == OMapValues(pl.plugins[type])
getCommandPlugins(pl) == getPluginsByType(pl, "commands")
getPostbackPlugins(pl) == getPluginsByType(pl, "postbacks")
getCommentPlugins(pl) == getPluginsByType(pl, "comments")

\* initialize(): loadAllPlugins on the freshly constructed loader
Initialize ==
  /\ ~initialized
  /\ LET r == loadAllPlugins([pl |-> pluginLoader, warnings |-> warnings], 0, PluginTypes, {})
     IN /\ pluginLoader' = r.pl
        /\ warnings' = r.warnings
        /\ loads' = r.susp
  /\ initialized' = TRUE
  /\ UNCHANGED <<config, disk, reloads, fileEvents, lastFileEvent>>
  /\ UNCHANGED trackerVars
  /\ UNCHANGED dispatchVars

\* The server listens once initialize() has returned.
Serving == initialized /\ ~\E t \in loads : t.rid = 0

\* reloadAll(): both maps and the key set are emptied, then loadAllPlugins
ReloadAll ==
  /\ Serving
  /\ reloads < MaxReloads
  /\ reloads' = reloads + 1
  /\ LET r == loadAllPlugins([pl |-> NewPluginLoader, warnings |-> warnings],
                             reloads + 1, PluginTypes, {})
     IN /\ pluginLoader' = r.pl
        /\ warnings' = r.warnings
        /\ loads' = loads \cup r.susp
  /\ UNCHANGED <<config, disk, initialized, fileEvents, lastFileEvent>>
  /\ UNCHANGED trackerVars
  /\ UNCHANGED dispatchVars

\* npm install has finished (or failed: the error is logged and swallowed):
\* loadPlugin registers the module and the loop goes on with the next file.
InstallDone ==
  \E t \in loads :
    LET reg == registerPlugin(pluginLoader, t.pending.module, t.type, t.pending.file)
        r == loadPluginsOfType([pl |-> reg, warnings |-> warnings], t.type, t.rest)
    IN /\ pluginLoader' = r.pl
       /\ warnings' = r.warnings
       /\ loads' = (loads \ {t}) \cup
                     (IF r.pending = <<>> THEN {}
                      ELSE {[rid |-> t.rid, type |-> t.type, pending |-> r.pending[1], rest |-> r.rest]})
       /\ UNCHANGED <<config, disk, initialized, reloads, fileEvents, lastFileEvent>>
       /\ UNCHANGED trackerVars
       /\ UNCHANGED dispatchVars

-----------------------------------------------------------------------------
(* Hot reload: the chokidar watchers set up by initialize() *)

NoFileEvent == [event |-> "none"]

\* the file names of the model in readdir order
FileOrder == <<"autoReply", "balance", "blank", "broken", "dmPlugin", "echo", "fetch", "gamesInvite", "helpCategory", "lucky", "ping",
               "ping2", "pinger", "rps", "scrape", "setbal">>

FileNames(type) == {f.file : f \in Range(disk[type])}

\* the directory listing holding the files of the set F
Listing(F) ==
  LET names == SelectSeq(FileOrder, LAMBDA n : \E f \in F : f.file = n)
  IN [i \in DOMAIN names |-> CHOOSE f \in F : f.file = names[i]]

Watching == Serving /\ config.hotReload /\ fileEvents < MaxFileEvents

\* handleFileChange(event, filePath, type), with the listing as the event left it
handleFileChange(event, f, type, listing) ==
  /\ fileEvents' = fileEvents + 1
  /\ disk' = [disk EXCEPT ![type] = listing]
  /\ lastFileEvent' = [event |-> event, type |-> type, file |-> f.file, module |-> f.module,
                       before |-> pluginLoader]
  /\ IF event = "unlink"
       THEN /\ pluginLoader' = unloadPlugin(pluginLoader, f.file, type)
            /\ UNCHANGED <<warnings, loads>>
       ELSE LET r == loadPlugin([pl |-> pluginLoader, warnings |-> warnings], f, type)
            IN /\ pluginLoader' = r.pl
               /\ warnings' = r.warnings
               /\ loads' = IF r.pending = <<>> THEN loads
                           ELSE loads \cup {[rid |-> 0 - fileEvents - 1, type |-> type,
                                             pending |-> r.pending[1], rest |-> <<>>]}
  /\ UNCHANGED <<config, initialized, reloads>>
  /\ UNCHANGED trackerVars
  /\ UNCHANGED dispatchVars

\* a new file appears in a plugin directory
FileAdded(type, f) ==
  /\ Watching
  /\ f.file \notin FileNames(type)
  /\ handleFileChange("add", f, type, Listing(Range(disk[type]) \cup {f}))

\* a file of a plugin directory is saved with other content
FileChanged(type, f) ==
  /\ Watching
  /\ \E old \in Range(disk[type]) :
       /\ old.file = f.file
       /\ old.module # f.module
       /\ handleFileChange("change", f, type, Listing((Range(disk[type]) \ {old}) \cup {f}))

\* a file of a plugin directory is deleted
FileUnlinked(type, f) ==
  /\ Watching
  /\ f \in Range(disk[type])
  /\ handleFileChange("unlink", f, type, Listing(Range(disk[type]) \ {f}))

-----------------------------------------------------------------------------
(* Strings *)

StartsWith(text, prefix) ==
  Len(prefix) <= Len(text) /\ SubSeq(text, 1, Len(prefix)) = prefix

Slice(text, n) == IF n >= Len(text) THEN "" ELSE SubSeq(text, n + 1, Len(text))

CharAt(text, i) == SubSeq(text, i, i)

IsSpace(c) == c \in {" ", "\t"}

RECURSIVE TrimStart(_)
TrimStart(text) ==
  IF text = "" THEN ""
  ELSE IF IsSpace(CharAt(text, 1)) THEN TrimStart(Slice(text, 1))
  ELSE text

RECURSIVE TrimEnd(_)
TrimEnd(text) ==
  IF text = "" THEN ""
  ELSE IF IsSpace(CharAt(text, Len(text))) THEN TrimEnd(SubSeq(text, 1, Len(text) - 1))
  ELSE text

Trim(text) == TrimEnd(TrimStart(text))

\* the length of the leading run of non-space characters
RECURSIVE TokenLen(_)
TokenLen(text) ==
  IF text = "" \/ IsSpace(CharAt(text, 1)) THEN 0 ELSE 1 + TokenLen(Slice(text, 1))

\* text.split(/\s+/) of a trimmed, non-empty text
RECURSIVE SplitSpaces(_)
SplitSpaces(text) ==
  IF text = "" THEN <<>>
  ELSE LET n == TokenLen(text)
       IN <<SubSeq(text, 1, n)>> \o SplitSpaces(TrimStart(Slice(text, n)))

UpperLetters == "ABCDEFGHIJKLMNOPQRSTUVWXYZ"
LowerLetters == "abcdefghijklmnopqrstuvwxyz"

LowerChar(c) ==
  IF \E i \in 1..Len(UpperLetters) : CharAt(UpperLetters, i) = c
    THEN CharAt(LowerLetters, CHOOSE i \in 1..Len(UpperLetters) : CharAt(UpperLetters, i) = c)
    ELSE c

RECURSIVE ToLowerCase(_)
ToLowerCase(text) ==
  IF text = "" THEN "" ELSE LowerChar(CharAt(text, 1)) \o ToLowerCase(Slice(text, 1))

Null == [ok |-> FALSE]

parseCommand_KeepCase(text, prefix) ==
  IF text = "" \/ prefix = "" \/ ~StartsWith(text, prefix) \/ Len(Trim(Slice(text, Len(prefix)))) = 0
    THEN Null
    ELSE LET args == SplitSpaces(Trim(Slice(text, Len(prefix))))
         IN [ok |-> TRUE, command |-> Head(args), args |-> Tail(args), original |-> text]

parseCommand(text, prefix) ==
  IF text = "" THEN Null
  ELSE IF prefix = "" \/ ~StartsWith(text, prefix) THEN Null
  ELSE LET trimmed == Trim(Slice(text, Len(prefix)))
       IN IF Len(trimmed) = 0 THEN Null
          ELSE LET args == SplitSpaces(trimmed)
               IN [ok |-> TRUE, command |-> ToLowerCase(Head(args)), args |-> Tail(args),
                   original |-> text]

-----------------------------------------------------------------------------
(* Webhook events *)

Senders == {"u1", "u2"}
EntryTimes == {1, 2}

RpsRaw == "{\"action\":\"GAME_RPS\",\"choice\":\"rock\"}"
RpsPayload == [t |-> "obj", action |-> "GAME_RPS", choice |-> "rock"]

\* the JSON texts of the model and the values they parse to
JSONValues == {RpsPayload, [t |-> "num", v |-> 7], [t |-> "null"]}

JSONparse_NoParse(raw) == [ok |-> FALSE]

\* JSON.parse: the parsed value, or a SyntaxError
JSONparse(raw) ==
  LET c == {p \in JSONValues : JSONstringify(p) = raw}
  IN IF c # {} THEN [ok |-> TRUE, value |-> CHOOSE p \in c : TRUE] ELSE [ok |-> FALSE]

\* event.message / event.postback / event.read of one messaging event
MessagingShapes ==
  { [kind |-> "message",  text |-> "/ping", attachments |-> <<>>, quick_reply |-> <<>>, payload |-> ""],
    [kind |-> "message",  text |-> "hello", attachments |-> <<>>, quick_reply |-> <<>>, payload |-> ""],
    [kind |-> "message",  text |-> "Rock",  attachments |-> <<>>, quick_reply |-> <<RpsRaw>>, payload |-> ""],
    [kind |-> "message",  text |-> "",      attachments |-> <<"image">>, quick_reply |-> <<>>, payload |-> ""],
    [kind |-> "postback", text |-> "",      attachments |-> <<>>, quick_reply |-> <<>>, payload |-> RpsRaw],
    [kind |-> "postback", text |-> "",      attachments |-> <<>>, quick_reply |-> <<>>, payload |-> "NOPE"],
    [kind |-> "read",     text |-> "",      attachments |-> <<>>, quick_reply |-> <<>>, payload |-> ""] }

\* one entry.changes element: value.item, value.verb, value.comment_id
FeedShapes ==
  { [field |-> "feed", item |-> "comment", verb |-> "add", comment_id |-> "c1", message |-> "inbox"],
    [field |-> "feed", item |-> "reaction", verb |-> "add", comment_id |-> "", message |-> ""] }

NoEvent == [pc |-> "none"]

NoRequest == [pc |-> "idle"]

IdleFlow == [phase |-> "idle", acked |-> FALSE, time |-> 0, size |-> 0, nMsg |-> 0, nChg |-> 0,
             cur |-> NoEvent, hadError |-> FALSE]

Min(S) == CHOOSE i \in S : \A j \in S : i <= j

-----------------------------------------------------------------------------
(* Handlers *)

\* messageTracker.trackMessage(...): a call of a method the class does not
\* define raises a TypeError
trackMessage(senderId, type, ok) ==
  IF "trackMessage" \in MessageTrackerMethods THEN "ok" ELSE "TypeError"

\* handleMessage from the end of its try body: bodyThrew tells whether the
\* awaited call raised. "apology" means the catch block awaits the apology send.
handleMessageTail(bodyThrew, senderId) ==
  LET enterCatch == bodyThrew \/ trackMessage(senderId, "message", TRUE) = "TypeError"
  IN IF ~enterCatch THEN "returned"
     ELSE IF trackMessage(senderId, "message", FALSE) = "TypeError" THEN "rejected"
     ELSE "apology"

\* handlePostback after plugin.start (matched) or after the not-available send
handlePostbackTail(matched, bodyThrew, senderId) ==
  LET enterCatch == bodyThrew \/ (matched /\ trackMessage(senderId, "postback", TRUE) = "TypeError")
  IN IF ~enterCatch THEN "returned"
     ELSE IF trackMessage(senderId, "postback", FALSE) = "TypeError" THEN "rejected"
     ELSE "returned"

\* handleComment after a run that returned true (handled) or raised (bodyThrew)
handleCommentTail(handled, bodyThrew, senderId) ==
  LET enterCatch == bodyThrew \/ (handled /\ trackMessage(senderId, "comment", TRUE) = "TypeError")
  IN IF ~enterCatch THEN "returned"
     ELSE IF trackMessage(senderId, "comment", FALSE) = "TypeError" THEN "rejected"
     ELSE "returned"

processMessagingEvent_Rethrow(outcome) == outcome

\* the try/catch around the body of processMessagingEvent: what its caller sees
processMessagingEvent_Catch(outcome) == "returned"

\* the try/catch around the body of processFeedEvent
processFeedEvent_Catch(outcome) == "returned"

\* plugin.payload === payload || (typeof payload === 'object' && payload.action === plugin.payload)
PostbackMatches(plugin, payload) ==
  \/ /\ plugin.payload.t = payload.t
     /\ payload.t \in {"str", "num"}
     /\ plugin.payload.v = payload.v
  \/ /\ plugin.payload.t = "null"
     /\ payload.t = "null"
  \/ /\ payload.t = "obj"
     /\ plugin.payload.t = "str"
     /\ plugin.payload.v = payload.action

\* typeof payload === 'object' holds for null, and payload.action then raises
\* a TypeError
PostbackThrows(plugin, payload) ==
  /\ payload.t = "null"
  /\ plugin.payload.t # "null"

CommandMatches(plugin, command) ==
  \/ plugin.config.name = command
  \/ /\ "aliases" \in DOMAIN plugin.config
     /\ command \in Range(plugin.config.aliases)

\* by how much the daily counters of each kind have grown between two states
\* of the tracker
Counted(before, after) ==
  [k \in DOMAIN ZeroCounts |-> after.dailyCounts[k] - before.dailyCounts[k]]

\* the dedup histories that differ between two states of the tracker
Cached(before, after) ==
  {kind \in {"message", "comment", "postback"} : History(after, kind) # History(before, kind)}

\* The event in progress of a delivery, with what has been observed of it.
NewCur(src, ev, senderId, fn, chk) ==
  [ pc |-> "begin", src |-> src, ev |-> ev, sender |-> senderId, fn |-> fn, inner |-> fn, what |-> "",
    plugins |-> <<>>, idx |-> 0, started |-> <<>>, tried |-> <<>>, handled |-> "", threw |-> {},
    sent |-> <<>>,
    dup |-> chk.dup, prior |-> chk.prior, priorExp |-> chk.priorExp, counted |-> chk.counted,
    cached |-> chk.cached,
    at |-> now ]

\* handlePostback up to its first await
handlePostbackBegin(c, raw) ==
  LET parsed == JSONparse(raw)
      payload == IF parsed.ok THEN parsed.value ELSE [t |-> "str", v |-> raw]
      postbackPlugins == getPostbackPlugins(pluginLoader)
      hits == {i \in DOMAIN postbackPlugins : PostbackMatches(postbackPlugins[i].module, payload)}
      raise == {i \in DOMAIN postbackPlugins : PostbackThrows(postbackPlugins[i].module, payload)}
  IN IF raise # {} /\ (hits = {} \/ Min(raise) < Min(hits))
       THEN [c EXCEPT !.pc = "threw", !.inner = "handlePostback"]
     ELSE IF hits # {}
       THEN [c EXCEPT !.pc = "start", !.inner = "handlePostback",
                      !.started = Append(@, [plugin |-> postbackPlugins[Min(hits)].meta.name,
                                             args |-> payload])]
       ELSE [c EXCEPT !.pc = "send", !.inner = "handlePostback", !.what = "unavailable"]

\* handleMessage without the early return for a quick reply
handleMessageBegin_NoReturn(c) ==
  IF c.ev.attachments # <<>> THEN [c EXCEPT !.pc = "attach", !.idx = 1]
  ELSE [c EXCEPT !.pc = "prefix"]

\* handleMessage up to its first await
handleMessageBegin(c) ==
  IF c.ev.quick_reply # <<>> THEN handlePostbackBegin(c, c.ev.quick_reply[1])
  ELSE IF c.ev.attachments # <<>> THEN [c EXCEPT !.pc = "attach", !.idx = 1]
  ELSE [c EXCEPT !.pc = "prefix"]

\* handleCommand without the test of config.security.adminUIDs
handleCommand_NoAdminCheck(c, commandData) ==
  LET commandPlugins == getCommandPlugins(pluginLoader)
      hits == {i \in DOMAIN commandPlugins : CommandMatches(commandPlugins[i].module, commandData.command)}
  IN IF hits # {}
       THEN [c EXCEPT !.pc = "start",
                      !.started = Append(@, [plugin |-> commandPlugins[Min(hits)].meta.name,
                                             args |-> commandData.args])]
       ELSE [c EXCEPT !.pc = "send", !.what = "unknown"]

\* handleCommand up to its first await
handleCommand(c, commandData) ==
  LET commandPlugins == getCommandPlugins(pluginLoader)
      hits == {i \in DOMAIN commandPlugins : CommandMatches(commandPlugins[i].module, commandData.command)}
  IN IF hits # {}
       THEN LET plugin == commandPlugins[Min(hits)]
            IN IF plugin.module.config.category = "admin" /\ c.sender \notin config.adminUIDs
                 THEN [c EXCEPT !.pc = "send", !.what = "denied"]
                 ELSE [c EXCEPT !.pc = "start",
                                !.started = Append(@, [plugin |-> plugin.meta.name,
                                                       args |-> commandData.args])]
       ELSE [c EXCEPT !.pc = "send", !.what = "unknown"]

\* handleMessage from the resolution of userStore.getPrefix to its next await
handleMessageRoute(c, userPrefix) ==
  LET text == c.ev.text
      commandData ==
        IF userPrefix # "" /\ StartsWith(text, userPrefix) THEN parseCommand(text, userPrefix)
        ELSE IF config.prefix # "" /\ StartsWith(text, config.prefix) THEN parseCommand(text, config.prefix)
        ELSE Null
  IN IF commandData.ok THEN handleCommand(c, commandData)
     ELSE [c EXCEPT !.pc = "send", !.what = "regular"]

\* handleComment up to its first await
handleCommentBegin(c) ==
  LET commentPlugins == getCommentPlugins(pluginLoader)
  IN IF commentPlugins = <<>> THEN [c EXCEPT !.pc = "end"]
     ELSE [c EXCEPT !.pc = "run", !.idx = 1,
                    !.plugins = [i \in DOMAIN commentPlugins |-> commentPlugins[i].meta.name],
                    !.tried = <<commentPlugins[1].meta.name>>]

\* userStore.getUser: the record of uid, created with defaults on first access
getUser(uid) ==
  IF uid \in DOMAIN users THEN users
  ELSE MapSet(users, uid, [balance |-> 0, prefix |-> IF config.prefix # "" THEN config.prefix ELSE "/",
                           nickname |-> ""])

getPrefix(us, uid) ==
  IF us[uid].prefix # "" THEN us[uid].prefix
  ELSE IF config.prefix # "" THEN config.prefix ELSE "/"

\* config.bot.prefix || '/'
GlobalDefault == IF config.prefix # "" THEN config.prefix ELSE "/"

setPrefix_ForAll(uid, prefix) ==
  [u \in DOMAIN getUser(uid) |->
     [getUser(uid)[u] EXCEPT !.prefix = IF prefix # "" THEN prefix ELSE GlobalDefault]]

\* userStore.setPrefix: the store after the call
setPrefix(uid, prefix) ==
  [getUser(uid) EXCEPT ![uid].prefix = IF prefix # "" THEN prefix ELSE GlobalDefault]

\* /\s/.test(text)
HasSpace(text) == \E i \in 1..Len(text) : IsSpace(CharAt(text, i))

\* start of the prefix command: the store after it and the reply it sends
prefixStart(senderId, args) ==
  IF args = <<>> THEN [users |-> getUser(senderId), reply |-> "show"]
  ELSE LET newPrefix == Trim(args[1])
       IN IF ToLowerCase(newPrefix) = "reset"
            THEN [users |-> setPrefix(senderId, config.prefix), reply |-> "reset"]
          ELSE IF Len(newPrefix) = 0 \/ HasSpace(newPrefix)
            THEN [users |-> users, reply |-> "invalid"]
          ELSE [users |-> setPrefix(senderId, newPrefix), reply |-> "updated"]

\* the argument lists the prefix command is started with
PrefixArgs == {<<>>, <<"!!">>, <<"#">>, <<"reset">>, <<"RESET">>, <<" ">>, <<"a b">>, <<"!!", "x">>}

\* prefix.start(senderId, args) runs to its end for one of the given users
\* and argument lists; the store may fail
prefixCommand(senders, argLists) ==
  \E u \in senders, args \in argLists, failed \in BOOLEAN :
    LET r == prefixStart(u, args)
    IN /\ IF failed
            THEN users' \in {users, getUser(u)}
            ELSE users' = r.users
       /\ lastEvent' = [pc |-> "prefix", uid |-> u, args |-> args, before |-> users,
                        reply |-> IF failed THEN "error" ELSE r.reply]
       /\ UNCHANGED <<today, request, botState, flows, cpu>>
       /\ UNCHANGED trackerVars
       /\ UNCHANGED loaderVars

PrefixCommand == prefixCommand(Senders, PrefixArgs)

\* userStore.getPrefix(uid), as handleMessage calls it
ResolvePrefix ==
  \E u \in Senders :
    /\ users' = getUser(u)
    /\ lastEvent' = [pc |-> "resolve", uid |-> u, before |-> users,
                     result |-> getPrefix(getUser(u), u)]
    /\ UNCHANGED <<today, request, botState, flows, cpu>>
    /\ UNCHANGED trackerVars
    /\ UNCHANGED loaderVars

-----------------------------------------------------------------------------
(* The webhook: POST handler, processWebhookEvent and the awaited steps.
   A delivery runs without interruption from one await on I/O to the next;
   cpu names the delivery whose code is running, 0 when the loop is idle. *)

\* what is remembered of the last event that left processMessagingEvent or
\* processFeedEvent
Summary(d, c, outcome) ==
  [ pc |-> "left", flow |-> d, src |-> c.src, ev |-> c.ev, sender |-> c.sender, time |-> flows[d].time,
    fn |-> c.fn, outcome |-> outcome, started |-> c.started, plugins |-> c.plugins,
    tried |-> c.tried, handled |-> c.handled, threw |-> c.threw, sent |-> c.sent, what |-> c.what,
    dup |-> c.dup, prior |-> c.prior, priorExp |-> c.priorExp, counted |-> c.counted,
    cached |-> c.cached, at |-> c.at,
    afterError |-> flows[d].hadError ]

\* the handler has settled with `outcome`; the enclosing try/catch decides
\* what the for loop of processWebhookEvent sees
EndEvent(d, fl, c, outcome) ==
  LET seen == IF c.src = "messaging" THEN processMessagingEvent_Catch(outcome)
              ELSE processFeedEvent_Catch(outcome)
  IN /\ flows' = [flows EXCEPT ![d] =
                    [fl EXCEPT !.cur = NoEvent,
                               !.hadError = @ \/ outcome = "rejected",
                               !.phase = IF seen = "rejected" THEN "aborted" ELSE @]]
     /\ cpu' = IF seen = "rejected" THEN 0 ELSE d
     /\ lastEvent' = Summary(d, c, outcome)

\* the code awaits I/O: the event loop is free
Suspend(d, fl, c) ==
  /\ flows' = [flows EXCEPT ![d] = [fl EXCEPT !.cur = c]]
  /\ cpu' = 0
  /\ UNCHANGED lastEvent

Proceed(d, fl, c) ==
  IF c.pc = "end" THEN EndEvent(d, fl, c, "returned")
  ELSE IF c.pc = "threw" THEN EndEvent(d, fl, c, handlePostbackTail(FALSE, TRUE, c.sender))
  ELSE Suspend(d, fl, c)

\* the awaited call has settled inside a handler's try block
AfterAwait(d, c, bodyThrew) ==
  LET tail == CASE c.inner = "handleMessage"  -> handleMessageTail(bodyThrew, c.sender)
                [] c.inner = "handlePostback" -> handlePostbackTail(c.pc = "start", bodyThrew, c.sender)
                [] OTHER                      -> handleCommentTail(~bodyThrew, bodyThrew, c.sender)
  IN IF tail = "apology"
       THEN Suspend(d, flows[d], [c EXCEPT !.pc = "send", !.what = "apology"])
       ELSE EndEvent(d, flows[d], c, tail)

\* Senders are interchangeable: "u2" stands for the second sender the page
\* hears from.
KnownSenders ==
  {s \in Senders : \E t \in EntryTimes : <<"message", MessageKey(s, t)>> \in DOMAIN recorded}

NextSenders == IF "u1" \in KnownSenders THEN Senders ELSE {"u1"}

\* the number of events in the deliveries 1..d
RECURSIVE Received(_)
Received(d) == IF d = 0 THEN 0 ELSE flows[d].size + Received(d - 1)

\* the response is left unsent
Acknowledge_Skip(fl) == fl

\* res.status(200).send('EVENT_RECEIVED')
Acknowledge(fl) == [fl EXCEPT !.acked = TRUE]

\* app.post(webhookPath): the delivery is answered, then processWebhookEvent
\* is called and runs to its first event; idle is the record of a delivery
\* that has not been received
webhookFrom(d, times, sizes, idle) ==
  /\ Serving
  /\ cpu = 0
  /\ flows[d].phase = "idle"
  /\ \A e \in 1..(d - 1) : flows[e].phase # "idle"
  /\ \E t \in times, n \in sizes, k \in 0..MaxChanges :
       /\ n + k > 0
       /\ Received(d - 1) + n + k <= MaxEvents
       /\ flows' = [flows EXCEPT ![d] = [Acknowledge(idle) EXCEPT !.phase = "running", !.time = t,
                                                                         !.size = n + k, !.nMsg = n, !.nChg = k]]
  /\ cpu' = d
  /\ UNCHANGED <<today, request, botState, users, lastEvent>>
  /\ UNCHANGED trackerVars
  /\ UNCHANGED loaderVars

\* a delivery whose request carries nothing but its entry
webhook(d, times, sizes) == webhookFrom(d, times, sizes, IdleFlow)

Receive(d) == webhook(d, EntryTimes, 0..MaxEvents)

\* the loop over entry.messaging calling processMessagingEvent without await
MessagingTurn_NoAwait(d) ==
  /\ cpu \in {0, d}
  /\ flows[d].phase = "running"
  /\ flows[d].nMsg > 0

\* for (const event of entry.messaging) await ...: the loop of delivery d is
\* running, no event of d is in progress, and a messaging event is left
MessagingTurn(d) ==
  /\ cpu = d
  /\ flows[d].phase = "running"
  /\ flows[d].cur = NoEvent
  /\ flows[d].nMsg > 0

\* for (const change of entry.changes) await ...: the loop over
\* entry.messaging has ended, no event of d is in progress, and a change is left
FeedTurn(d) ==
  /\ cpu = d
  /\ flows[d].phase = "running"
  /\ flows[d].cur = NoEvent
  /\ flows[d].nMsg = 0
  /\ flows[d].nChg > 0

\* processMessagingEvent(event, pageID, entry.time) up to its first await on
\* I/O, for an event of the given senders and shapes
processMessagingEvent(d, senders, shapes) ==
  /\ MessagingTurn(d)
  /\ \E s \in senders, e \in shapes :
       LET timestamp == flows[d].time
           key == MessageKey(s, timestamp)
           r == isDuplicate(messageTracker, s, timestamp, now)
           had == <<"message", key>> \in DOMAIN recorded
           tracked == track(r.mt, s, timestamp, "message", today)
           chk == [dup |-> r.ret, prior |-> had,
                   priorExp |-> IF had THEN recorded[<<"message", key>>].expiresAt ELSE 0,
                   counted |-> Counted(messageTracker, IF r.ret THEN r.mt ELSE tracked),
                   cached |-> Cached(messageTracker, IF r.ret THEN r.mt ELSE tracked)]
           fl == [flows[d] EXCEPT !.nMsg = @ - 1]
       IN IF r.ret
            THEN /\ messageTracker' = r.mt
                 /\ UNCHANGED <<botState, recorded>>
                 /\ EndEvent(d, fl, NewCur("messaging", e, s, "none", chk), "skipped")
            ELSE /\ messageTracker' = tracked
                 /\ botState' = [botState EXCEPT !.messagesProcessed = @ + 1]
                 /\ recorded' = MapSet(recorded, <<"message", key>>,
                                       [at |-> now, expiresAt |-> now + ExpiryMinutes])
                 /\ CASE e.kind = "message" ->
                           Proceed(d, fl, handleMessageBegin(NewCur("messaging", e, s, "handleMessage", chk)))
                      [] e.kind = "postback" ->
                           Proceed(d, fl, handlePostbackBegin(NewCur("messaging", e, s, "handlePostback", chk),
                                                              e.payload))
                      [] OTHER ->
                           EndEvent(d, fl, NewCur("messaging", e, s, "none", chk), "none")
  /\ UNCHANGED <<now, lastCheck, today, request, users>>
  /\ UNCHANGED loaderVars

NextMessagingEvent(d) == processMessagingEvent(d, NextSenders, MessagingShapes)

\* processFeedEvent up to its first await on I/O
NextFeedEvent(d) ==
  /\ FeedTurn(d)
  /\ \E s \in NextSenders, e \in FeedShapes :
       LET fl == [flows[d] EXCEPT !.nChg = @ - 1]
           isComment == e.field = "feed" /\ e.item = "comment" /\ e.verb = "add"
           r == isDuplicateComment(messageTracker, e.comment_id, now)
           had == <<"comment", e.comment_id>> \in DOMAIN recorded
           tracked == trackComment(r.mt, e.comment_id, today)
           chk == [dup |-> isComment /\ r.ret, prior |-> isComment /\ had,
                   priorExp |-> IF isComment /\ had THEN recorded[<<"comment", e.comment_id>>].expiresAt
                                ELSE 0,
                   counted |-> Counted(messageTracker, IF ~isComment THEN messageTracker
                                                       ELSE IF r.ret THEN r.mt ELSE tracked),
                   cached |-> Cached(messageTracker, IF ~isComment THEN messageTracker
                                                     ELSE IF r.ret THEN r.mt ELSE tracked)]
       IN IF ~isComment
            THEN /\ UNCHANGED <<messageTracker, botState, recorded>>
                 /\ EndEvent(d, fl, NewCur("changes", e, s, "none", chk), "none")
          ELSE IF r.ret
            THEN /\ messageTracker' = r.mt
                 /\ UNCHANGED <<botState, recorded>>
                 /\ EndEvent(d, fl, NewCur("changes", e, s, "none", chk), "skipped")
          ELSE /\ messageTracker' = tracked
               /\ botState' = [botState EXCEPT !.commentsProcessed = @ + 1]
               /\ recorded' = MapSet(recorded, <<"comment", e.comment_id>>,
                                     [at |-> now, expiresAt |-> now + ExpiryMinutes])
               /\ Proceed(d, fl, handleCommentBegin(NewCur("changes", e, s, "handleComment", chk)))
  /\ UNCHANGED <<now, lastCheck, today, request, users>>
  /\ UNCHANGED loaderVars

\* processWebhookEvent returns: both loops of the entry are exhausted
Finish(d) ==
  /\ cpu = d
  /\ flows[d].phase = "running"
  /\ flows[d].cur = NoEvent
  /\ flows[d].nMsg = 0
  /\ flows[d].nChg = 0
  /\ flows' = [flows EXCEPT ![d].phase = "done"]
  /\ cpu' = 0
  /\ UNCHANGED <<today, request, botState, users, lastEvent>>
  /\ UNCHANGED trackerVars
  /\ UNCHANGED loaderVars

Awaiting(d, pc) ==
  /\ cpu = 0
  /\ flows[d].phase = "running"
  /\ flows[d].cur.pc = pc

\* handleAttachments: the acknowledgement send of one attachment settles
AttachSettled(d) ==
  /\ Awaiting(d, "attach")
  /\ \E failed \in BOOLEAN :
       LET c == flows[d].cur
       IN IF failed THEN AfterAwait(d, c, TRUE)
          ELSE IF c.idx < Len(c.ev.attachments)
            THEN Suspend(d, flows[d], [c EXCEPT !.idx = @ + 1, !.sent = Append(@, "thanks")])
          ELSE Suspend(d, flows[d], [c EXCEPT !.pc = "prefix", !.sent = Append(@, "thanks")])
  /\ UNCHANGED <<today, request, botState, users>>
  /\ UNCHANGED trackerVars
  /\ UNCHANGED loaderVars

\* userStore.getPrefix settles (a MongoDB round trip when a database is
\* configured); handleMessage goes on to its next await
PrefixSettled(d) ==
  /\ Awaiting(d, "prefix")
  /\ \E failed \in BOOLEAN :
       LET c == flows[d].cur
           us == getUser(c.sender)
       IN IF failed
            THEN /\ UNCHANGED users
                 /\ AfterAwait(d, c, TRUE)
            ELSE /\ users' = us
                 /\ Suspend(d, flows[d], handleMessageRoute(c, getPrefix(us, c.sender)))
  /\ UNCHANGED <<today, request, botState>>
  /\ UNCHANGED trackerVars
  /\ UNCHANGED loaderVars

\* plugin.start of a command or postback plugin settles
StartSettled(d) ==
  /\ Awaiting(d, "start")
  /\ \E threw \in BOOLEAN :
       LET c == flows[d].cur
           plugin == c.started[Len(c.started)].plugin
       IN AfterAwait(d, IF threw THEN [c EXCEPT !.threw = @ \cup {plugin}] ELSE c, threw)
  /\ UNCHANGED <<today, request, botState, users>>
  /\ UNCHANGED trackerVars
  /\ UNCHANGED loaderVars

\* fbApi.sendMessage settles
SendSettled(d) ==
  /\ Awaiting(d, "send")
  /\ \E failed \in BOOLEAN :
       LET c == flows[d].cur
           c2 == IF failed THEN c ELSE [c EXCEPT !.sent = Append(@, c.what)]
       IN IF c.what = "apology"
            THEN EndEvent(d, flows[d], c2, IF failed THEN "rejected" ELSE "returned")
            ELSE AfterAwait(d, c2, failed)
  /\ UNCHANGED <<today, request, botState, users>>
  /\ UNCHANGED trackerVars
  /\ UNCHANGED loaderVars

\* the loop of handleComment reading the registry anew at each step
RunSettled_Live(d) ==
  /\ Awaiting(d, "run")
  /\ \E res \in {"true", "false", "throw"} :
       LET c == flows[d].cur
           live == getCommentPlugins(pluginLoader)
       IN CASE res = "throw" -> AfterAwait(d, [c EXCEPT !.threw = @ \cup {c.tried[c.idx]}], TRUE)
            [] res = "true"  -> AfterAwait(d, [c EXCEPT !.handled = c.tried[c.idx]], FALSE)
            [] OTHER ->
                 IF c.idx < Len(live)
                   THEN Suspend(d, flows[d], [c EXCEPT !.idx = @ + 1,
                                                       !.tried = Append(@, live[c.idx + 1].meta.name)])
                   ELSE EndEvent(d, flows[d], c, "returned")
  /\ UNCHANGED <<today, request, botState, users>>
  /\ UNCHANGED trackerVars
  /\ UNCHANGED loaderVars

\* the loop of handleComment going on to the next reactor whatever run returned
RunSettled_KeepsGoing(d) ==
  /\ Awaiting(d, "run")
  /\ \E res \in {"true", "false", "throw"} :
       LET c == flows[d].cur
           h == IF res = "true" THEN [c EXCEPT !.handled = c.plugins[c.idx]] ELSE c
       IN CASE res = "throw" -> AfterAwait(d, [c EXCEPT !.threw = @ \cup {c.plugins[c.idx]}], TRUE)
            [] OTHER ->
                 IF c.idx < Len(c.plugins)
                   THEN Suspend(d, flows[d], [h EXCEPT !.idx = @ + 1,
                                                       !.tried = Append(@, c.plugins[c.idx + 1])])
                   ELSE EndEvent(d, flows[d], h, "returned")
  /\ UNCHANGED <<today, request, botState, users>>
  /\ UNCHANGED trackerVars
  /\ UNCHANGED loaderVars

\* plugin.run of the comment plugin in turn settles
RunSettled(d) ==
  /\ Awaiting(d, "run")
  /\ \E res \in {"true", "false", "throw"} :
       LET c == flows[d].cur
       IN CASE res = "throw" -> AfterAwait(d, [c EXCEPT !.threw = @ \cup {c.plugins[c.idx]}], TRUE)
            [] res = "true"  -> AfterAwait(d, [c EXCEPT !.handled = c.plugins[c.idx]], FALSE)
            [] OTHER ->
                 IF c.idx < Len(c.plugins)
                   THEN Suspend(d, flows[d], [c EXCEPT !.idx = @ + 1,
                                                       !.tried = Append(@, c.plugins[c.idx + 1])])
                   ELSE EndEvent(d, flows[d], c, "returned")
  /\ UNCHANGED <<today, request, botState, users>>
  /\ UNCHANGED trackerVars
  /\ UNCHANGED loaderVars

-----------------------------------------------------------------------------
(* Claims about the dedup cache, checked under SpecTracker *)

\* C1: the first check of a key returns false and records it with expiry
\* now + 5 minutes; every later check of that key before the expiry returns
\* true and raises the duplicates counter by exactly one.
C1_DedupWithinWindow ==
  lastCheck.kind # "none" =>
    /\ ~lastCheck.prior => ~lastCheck.ret
    /\ ~lastCheck.ret =>
         /\ lastCheck.key \in DOMAIN History(messageTracker, lastCheck.kind)
         /\ History(messageTracker, lastCheck.kind)[lastCheck.key].expiresAt
              = lastCheck.at + ExpiryMinutes
         /\ lastCheck.dupAfter = lastCheck.dupBefore
    /\ (lastCheck.prior /\ lastCheck.at < lastCheck.priorExp) =>
         /\ lastCheck.ret
         /\ lastCheck.dupAfter = lastCheck.dupBefore + 1

C1_Witness ==
  /\ lastCheck.kind = "postback"
  /\ lastCheck.prior
  /\ lastCheck.at > 0
  /\ lastCheck.at < lastCheck.priorExp
  /\ lastCheck.ret
  /\ lastCheck.dupBefore = 1

\* C2: once the 5-minute window of a recorded key has elapsed, a fresh check of
\* the same key returns false again.
C2_FreshAfterWindow ==
  (lastCheck.kind # "none" /\ lastCheck.prior /\ lastCheck.at > lastCheck.priorExp)
    => ~lastCheck.ret

\* C3: a check is answered "duplicate" only when the same kind recorded that
\* key before; a textually equal key recorded by another kind never suppresses.
C3_KeyspacesIsolated ==
  (lastCheck.kind # "none" /\ lastCheck.ret) => lastCheck.prior

C3_Witness ==
  /\ lastCheck.kind = "comment"
  /\ lastCheck.key = "u1_1"
  /\ "message" \in lastCheck.others
  /\ ~lastCheck.prior
  /\ ~lastCheck.ret

-----------------------------------------------------------------------------

DefaultConfig == [autoInstallDeps |-> FALSE, hotReload |-> TRUE, prefix |-> "/", adminUIDs |-> {"admin1"}]

DefaultDisk ==
  [ commands  |-> <<PingFile, SetbalFile>>,
    postbacks |-> <<HelpCategoryFile, RpsFile>>,
    comments  |-> <<DmFile, GamesFile>> ]

\* The state after the modules are loaded and the singletons constructed.
Constructed ==
  /\ now = 0
  /\ messageTracker = NewMessageTracker
  /\ lastCheck = NoCheck
  /\ recorded = [k \in {} |-> 0]
  /\ pluginLoader = NewPluginLoader
  /\ initialized = FALSE
  /\ reloads = 0
  /\ loads = {}
  /\ warnings = <<>>
  /\ fileEvents = 0
  /\ lastFileEvent = NoFileEvent
  /\ today = 0
  /\ botState = [messagesProcessed |-> 0, commentsProcessed |-> 0, postbacksProcessed |-> 0]
  /\ users = [u \in {} |-> 0]
  /\ flows = [d \in 1..MaxDeliveries |-> IdleFlow]
  /\ cpu = 0
  /\ lastEvent = NoEvent
  /\ request = NoRequest

Init ==
  /\ Constructed
  /\ config = DefaultConfig
  /\ disk = DefaultDisk

NextTracker == CheckMessage \/ CheckComment \/ CheckPostback \/ Tick

SpecTracker == Init /\ [][NextTracker]_vars

\* a class instance among the comment plugins
AutoReplyFile == File("autoReply", [name |-> "Auto Reply", run |-> "function", constructorName |-> "AutoReply"])

InitDispatch ==
  /\ Constructed
  /\ config = DefaultConfig
  /\ disk = [DefaultDisk EXCEPT !.comments = <<AutoReplyFile>> \o @]

NextDispatch ==
  \/ Initialize
  \/ \E d \in 1..MaxDeliveries :
       \/ Receive(d)
       \/ NextMessagingEvent(d)
       \/ NextFeedEvent(d)
       \/ Finish(d)
       \/ AttachSettled(d)
       \/ PrefixSettled(d)
       \/ StartSettled(d)
       \/ SendSettled(d)
       \/ RunSettled(d)

SpecDispatch == InitDispatch /\ [][NextDispatch]_vars

-----------------------------------------------------------------------------
(* Claims about dispatch, checked under SpecDispatch *)

Handlers == {"handleMessage", "handlePostback", "handleComment"}

Left == lastEvent.pc = "left"

\* C4: handleMessage, handlePostback and handleComment never return a
\* rejected promise to their caller, whatever the event and the outcome of
\* the plugin.
C4_HandlersNeverThrow ==
  (Left /\ lastEvent.fn \in Handlers) => lastEvent.outcome # "rejected"

\* C5: when a plugin's start or run raises during dispatch, the apology
\* message is sent to the sender of the event.
C5_ApologyOnHandlerError ==
  (Left /\ lastEvent.threw # {}) => "apology" \in Range(lastEvent.sent)

\* C6: in comment dispatch, the reactor that follows a reactor whose run
\* threw is still tried for the same comment.
C6_ThrowingReactorDoesNotEndChain ==
  (Left /\ lastEvent.fn = "handleComment") =>
    \A i \in DOMAIN lastEvent.plugins :
      (lastEvent.plugins[i] \in lastEvent.threw /\ i < Len(lastEvent.plugins)) =>
        lastEvent.plugins[i + 1] \in Range(lastEvent.tried)

RecordedKeys(kind) == {k \in DOMAIN recorded : k[1] = kind}

\* C7: an exception raised while one event is handled never ends the
\* delivery it belongs to nor any other: no delivery is abandoned with events
\* left, every event that is not a duplicate is counted, and every message,
\* postback or new comment that is not a duplicate reaches its handler.
C7_ErrorsDoNotStopDispatch ==
  /\ \A d \in 1..MaxDeliveries : flows[d].phase # "aborted"
  /\ \A d \in 1..MaxDeliveries :
       flows[d].phase = "done" => (flows[d].nMsg = 0 /\ flows[d].nChg = 0 /\ flows[d].cur = NoEvent)
  /\ botState.messagesProcessed = Cardinality(RecordedKeys("message"))
  /\ botState.commentsProcessed = Cardinality(RecordedKeys("comment"))
  /\ (Left /\ ~lastEvent.dup /\ lastEvent.src = "messaging" /\ lastEvent.ev.kind \in {"message", "postback"})
       => lastEvent.fn \in Handlers
  /\ (Left /\ ~lastEvent.dup /\ lastEvent.src = "changes" /\ lastEvent.ev.item = "comment")
       => lastEvent.fn = "handleComment"

\* a later event of a delivery in which a handler had rejected reaches a plugin
C7_Witness ==
  /\ Left
  /\ lastEvent.afterError
  /\ ~lastEvent.dup
  /\ lastEvent.fn \in Handlers
  /\ lastEvent.started # <<>>
  /\ flows[lastEvent.flow].phase = "running"

IsRps == Left /\ lastEvent.src = "messaging" /\ lastEvent.ev.kind = "postback" /\ lastEvent.ev.payload = RpsRaw

-----------------------------------------------------------------------------
(* The plugin registry alone: start-up and reloadAll over a directory listing
   chosen at start *)

\* plugins/commands in directory order
CommandPool ==
  <<BlankFile, BrokenFile, FetchFile, PingFile, Ping2File, PingerFile, ScrapeFile, SetbalFile, UptimeFile>>

CommandListings ==
  { SelectSeq(CommandPool, LAMBDA f : f.file \in S) : S \in SUBSET {f.file : f \in Range(CommandPool)} }

InitRegistry ==
  /\ Constructed
  /\ config \in { [DefaultConfig EXCEPT !.autoInstallDeps = b] : b \in BOOLEAN }
  /\ disk \in { [DefaultDisk EXCEPT !.commands = l] : l \in CommandListings }

NextRegistry == Initialize \/ ReloadAll \/ InstallDone

SpecRegistry == InitRegistry /\ [][NextRegistry]_vars

ValidFiles(type) == {f \in Range(disk[type]) : validatePlugin(f.module, type)}

\* the listing positions of the valid files of a type
ValidAt(type) == {i \in DOMAIN disk[type] : validatePlugin(disk[type][i].module, type)}

InRegistry(type, file) == OMapHas(pluginLoader.plugins[type], file)

Rejected(type, file) ==
  \E i \in DOMAIN warnings :
    /\ warnings[i].what = "duplicate"
    /\ warnings[i].type = type
    /\ warnings[i].file = file

\* C9: of two command files declaring the same name, whatever their aliases,
\* exactly the first is in the registry once loading has finished, and the
\* second was rejected with a recorded warning.
C9_SameNameFirstWins ==
  (initialized /\ loads = {}) =>
    \A i, j \in ValidAt("commands") :
      (i < j /\ disk.commands[i].module.config.name = disk.commands[j].module.config.name) =>
        /\ ~InRegistry("commands", disk.commands[j].file)
        /\ Rejected("commands", disk.commands[j].file)

\* a module of the listing is visible when a registered record carries its key
Visible(type, f) ==
  \E i \in DOMAIN pluginLoader.plugins[type] :
    getDuplicateKey(pluginLoader.plugins[type][i].value.module, type) = getDuplicateKey(f.module, type)

\* C10: whenever the server is serving, reloadAll in progress or not, the
\* registry a lookup sees holds every loadable plugin of the directories.
C10_ReloadAtomic ==
  Serving => \A t \in Range(PluginTypes) : \A f \in ValidFiles(t) : Visible(t, f)

\* C14: every registered command has a non-empty name and a start, every
\* registered postback plugin a payload and a start, every registered
\* comment plugin a run.
C14_RegisteredPluginsValid ==
  /\ \A i \in DOMAIN pluginLoader.plugins.commands :
       LET plugin == pluginLoader.plugins.commands[i].value.module
       IN /\ "config" \in DOMAIN plugin
          /\ "name" \in DOMAIN plugin.config
          /\ plugin.config.name # ""
          /\ "start" \in DOMAIN plugin
  /\ \A i \in DOMAIN pluginLoader.plugins.postbacks :
       LET plugin == pluginLoader.plugins.postbacks[i].value.module
       IN "payload" \in DOMAIN plugin /\ "start" \in DOMAIN plugin
  /\ \A i \in DOMAIN pluginLoader.plugins.comments :
       "run" \in DOMAIN pluginLoader.plugins.comments[i].value.module

\* loadPluginsOfType with every installDependencies awaited to its end
RECURSIVE LoadedAlone(_, _, _)
LoadedAlone(st, type, files) ==
  LET r == loadPluginsOfType(st, type, files)
  IN IF r.pending = <<>> THEN r.pl
     ELSE LoadedAlone([pl |-> registerPlugin(r.pl, r.pending[1].module, type, r.pending[1].file),
                       warnings |-> r.warnings], type, r.rest)

\* the registry a single reloadAll leaves when nothing else runs
SingleReload(type) ==
  LoadedAlone([pl |-> NewPluginLoader, warnings |-> <<>>], type, disk[type]).plugins[type]

\* C11: once every reloadAll that was started has completed, each namespace
\* holds the plugins, in the registration order, that one reloadAll leaves.
C11_ReloadIdempotent ==
  (Serving /\ reloads >= 1 /\ loads = {}) =>
    \A t \in Range(PluginTypes) : pluginLoader.plugins[t] = SingleReload(t)

-----------------------------------------------------------------------------
(* The registry under watcher events *)

\* ping.js saved with its aliases reordered and another category: same key
PingEditedFile == File("ping", CommandModule("ping", <<"status", "pong">>, "general", <<>>))

\* the files that may be written into each plugin directory
HotPool ==
  [ commands  |-> {PingFile, PingEditedFile, PingerFile, SetbalFile},
    postbacks |-> {HelpCategoryFile, RpsFile},
    comments  |-> {AutoReplyFile, DmFile, GamesFile} ]

InitHotReload ==
  /\ Constructed
  /\ config = DefaultConfig
  /\ disk = DefaultDisk

NextHotReload ==
  \/ Initialize
  \/ \E type \in Range(PluginTypes) : \E f \in HotPool[type] :
       \/ FileAdded(type, f)
       \/ FileChanged(type, f)
       \/ FileUnlinked(type, f)

SpecHotReload == InitHotReload /\ [][NextHotReload]_vars

WasRegistered == OMapHas(lastFileEvent.before.plugins[lastFileEvent.type], lastFileEvent.file)

\* the record of the file before the event
RecordBefore == OMapGet(lastFileEvent.before.plugins[lastFileEvent.type], lastFileEvent.file)

\* the record that registering the event's module leaves
Loaded(type, module) == Spread(SortAliasesInPlace(module, type))

\* C12: after a change event for a registered file whose new content has the
\* key of the registered record, the record under that name is the new
\* content, and every other record is as it was.
C12_ChangeReplacesRecord ==
  ( /\ lastFileEvent.event = "change"
    /\ WasRegistered
    /\ getDuplicateKey(lastFileEvent.module, lastFileEvent.type)
         = getDuplicateKey(RecordBefore.module, lastFileEvent.type) ) =>
    /\ InRegistry(lastFileEvent.type, lastFileEvent.file)
    /\ OMapGet(pluginLoader.plugins[lastFileEvent.type], lastFileEvent.file).module
         = Loaded(lastFileEvent.type, lastFileEvent.module)
    /\ \A t \in Range(PluginTypes) :
         OMapDelete(pluginLoader.plugins[t], lastFileEvent.file)
           = OMapDelete(lastFileEvent.before.plugins[t], lastFileEvent.file)

\* C13: after an unlink event for a file whose content is what the registry
\* holds under its name, the name is no longer registered and adding the
\* same file again registers it.
C13_UnlinkFreesKey ==
  ( /\ lastFileEvent.event = "unlink"
    /\ WasRegistered
    /\ RecordBefore.module = Loaded(lastFileEvent.type, lastFileEvent.module) ) =>
    /\ ~InRegistry(lastFileEvent.type, lastFileEvent.file)
    /\ OMapHas(loadPlugin([pl |-> pluginLoader, warnings |-> <<>>],
                          File(lastFileEvent.file, lastFileEvent.module),
                          lastFileEvent.type).pl.plugins[lastFileEvent.type],
               lastFileEvent.file)

-----------------------------------------------------------------------------
(* The prefix of each user *)

InitPrefix ==
  /\ Constructed
  /\ config \in { [DefaultConfig EXCEPT !.prefix = p] : p \in {"/", ""} }
  /\ disk = DefaultDisk

NextPrefix == PrefixCommand \/ ResolvePrefix

SpecPrefix == InitPrefix /\ [][NextPrefix]_vars

\* C15: a user without a record resolves to the global default; after a
\* prefix is set it is the resolved prefix; after "reset" the resolved prefix
\* is the global default; "reset" is never stored; a command of one user
\* leaves the other users' records as they were.
C15_PrefixResolution ==
  /\ (lastEvent.pc = "resolve" /\ lastEvent.uid \notin DOMAIN lastEvent.before) =>
       lastEvent.result = GlobalDefault
  /\ (lastEvent.pc = "prefix" /\ lastEvent.reply = "updated") =>
       getPrefix(users, lastEvent.uid) = Trim(lastEvent.args[1])
  /\ (lastEvent.pc = "prefix" /\ lastEvent.reply = "reset") =>
       getPrefix(users, lastEvent.uid) = GlobalDefault
  /\ (lastEvent.pc = "prefix" /\ lastEvent.args # <<>> /\ lastEvent.args[1] = "!!"
        /\ lastEvent.reply # "error") => lastEvent.reply = "updated"
  /\ (lastEvent.pc = "prefix" /\ lastEvent.args # <<>> /\ lastEvent.args[1] = "reset"
        /\ lastEvent.reply # "error") => lastEvent.reply = "reset"
  /\ \A u \in DOMAIN users : ToLowerCase(users[u].prefix) # "reset"
  /\ lastEvent.pc \in {"prefix", "resolve"} =>
       \A u \in Senders \ {lastEvent.uid} :
         /\ u \in DOMAIN users <=> u \in DOMAIN lastEvent.before
         /\ u \in DOMAIN users => users[u] = lastEvent.before[u]

\* u1 resets after having set "!!", while u2 keeps "#"
C15_Witness ==
  /\ lastEvent.pc = "prefix"
  /\ lastEvent.uid = "u1"
  /\ lastEvent.reply = "reset"
  /\ "u1" \in DOMAIN lastEvent.before
  /\ lastEvent.before["u1"].prefix = "!!"
  /\ "u2" \in DOMAIN users
  /\ users["u2"].prefix = "#"
  /\ getPrefix(users, "u1") = GlobalDefault

-----------------------------------------------------------------------------
(* parseCommand on its own *)

\* message texts and the prefixes they are parsed with (a prefix is never empty:
\* handleMessage tests it before the call)
ParseTexts ==
  { "/help ping", "hello", "/", "/ ", "/  HELP  Ping  Me ", "/BAL", "/Bal 10 Bob", "!!bal 10", "!!",
    "!! \t ", "/\thelp\tA", "//x", " /help", "/help", "!/help", "/h", "/hELP a B c", "#Ping", "# ping  X",
    "!", "/HELP PING" }

ParsePrefixes == {"/", "!!", "/h", "!", "#"}

\* parseCommand(text, prefix) is called
Parse ==
  \E text \in ParseTexts, prefix \in ParsePrefixes :
    /\ lastEvent' = [pc |-> "parsed", text |-> text, prefix |-> prefix,
                     result |-> parseCommand(text, prefix)]
    /\ UNCHANGED <<today, request, botState, users, flows, cpu>>
    /\ UNCHANGED trackerVars
    /\ UNCHANGED loaderVars

NextParse == Parse

SpecParse == Init /\ [][NextParse]_vars

\* the text without its whitespace
RECURSIVE Strip(_)
Strip(text) ==
  IF text = "" THEN ""
  ELSE IF IsSpace(CharAt(text, 1)) THEN Strip(Slice(text, 1))
  ELSE CharAt(text, 1) \o Strip(Slice(text, 1))

\* the positions at which a run of non-whitespace characters begins
TokenStarts(text) ==
  {i \in 1..Len(text) : ~IsSpace(CharAt(text, i)) /\ (i = 1 \/ IsSpace(CharAt(text, i - 1)))}

EndsWith(text, suffix) ==
  Len(suffix) <= Len(text) /\ SubSeq(text, Len(text) - Len(suffix) + 1, Len(text)) = suffix

\* C16: parseCommand returns none exactly when the text does not start with
\* the prefix or only whitespace follows it; otherwise the command is the
\* first token of the remainder in lower case and args are the other tokens,
\* unchanged and in order.
C16_ParseCommand ==
  lastEvent.pc = "parsed" =>
    LET text == lastEvent.text
        prefix == lastEvent.prefix
        r == lastEvent.result
        rest == Slice(text, Len(prefix))
        first == Min(TokenStarts(rest))
    IN /\ r.ok <=> (StartsWith(text, prefix) /\ TokenStarts(rest) # {})
       /\ r.ok =>
            /\ r.command = ToLowerCase(SubSeq(rest, first, first + Len(r.command) - 1))
            /\ Len(r.command) > 0
            /\ first + Len(r.command) > Len(rest) \/ IsSpace(CharAt(rest, first + Len(r.command)))
            /\ Len(r.args) + 1 = Cardinality(TokenStarts(rest))
            /\ \A i \in DOMAIN r.args : Len(r.args[i]) > 0 /\ ~HasSpace(r.args[i])
            /\ EndsWith(Strip(rest), ArrayJoin(r.args, ""))
            /\ Len(Strip(rest)) = Len(r.command) + Len(ArrayJoin(r.args, ""))
       /\ (text = "/help ping" /\ prefix = "/") =>
            (r.ok /\ r.command = "help" /\ r.args = <<"ping">>)
       /\ (text = "hello" /\ prefix = "/") => ~r.ok
       /\ (text = "/" /\ prefix = "/") => ~r.ok

\* upper-case command, several spaces, mixed-case args
C16_Witness ==
  /\ lastEvent.pc = "parsed"
  /\ lastEvent.text = "/  HELP  Ping  Me "
  /\ lastEvent.prefix = "/"
  /\ lastEvent.result.ok
  /\ lastEvent.result.command = "help"
  /\ lastEvent.result.args = <<"Ping", "Me">>

-----------------------------------------------------------------------------
(* One delivery of command messages *)

CommandSenders == {"u1", "admin1"}

CommandTexts == {"/BAL", "/balance 5", "/echo hi", "/SAY Hi", "/setbal u1 5", "/SetBalance u1 5", "/nope"}

CommandShapes ==
  { [kind |-> "message", text |-> t, attachments |-> <<>>, quick_reply |-> <<>>, payload |-> ""] :
      t \in CommandTexts }

NextCommandEvent == processMessagingEvent(1, CommandSenders, CommandShapes)

InitCommands ==
  /\ Constructed
  /\ config = DefaultConfig
  /\ disk = [DefaultDisk EXCEPT !.commands = <<BalanceFile, EchoFile, SetbalFile>>]

NextCommands ==
  \/ Initialize
  \/ Receive(1)
  \/ NextCommandEvent
  \/ Finish(1)
  \/ PrefixSettled(1)
  \/ StartSettled(1)
  \/ SendSettled(1)

SpecCommands == InitCommands /\ [][NextCommands]_vars

\* the command word typed in the message, as parseCommand returns it
Typed == parseCommand(lastEvent.ev.text, config.prefix).command

\* the registered commands whose name or one of whose aliases, in any
\* spelling, is the typed word
Named ==
  LET commandPlugins == getCommandPlugins(pluginLoader)
  IN {i \in DOMAIN commandPlugins :
        \/ ToLowerCase(commandPlugins[i].module.config.name) = Typed
        \/ \E a \in Range(commandPlugins[i].module.config.aliases) : ToLowerCase(a) = Typed}

\* a command message whose prefix was resolved and whose lookup was made
LookedUp ==
  /\ Left
  /\ lastEvent.fn = "handleMessage"
  /\ lastEvent.started # <<>> \/ lastEvent.what # ""

\* C17: a message made of the prefix and any upper/lower-case spelling of a
\* registered command's name or alias, in the typed text or in the plugin's
\* declaration, is dispatched to that command (or refused for lack of permission).
C17_LookupIgnoresCase ==
  (LookedUp /\ Named # {}) =>
    \/ lastEvent.what = "denied"
    \/ /\ lastEvent.started # <<>>
       /\ \E i \in Named : getCommandPlugins(pluginLoader)[i].meta.name = lastEvent.started[1].plugin

\* the started commands of an event whose category is admin
AdminStarted(started) ==
  LET commandPlugins == getCommandPlugins(pluginLoader)
  IN {k \in DOMAIN started :
        \E i \in DOMAIN commandPlugins :
          /\ commandPlugins[i].meta.name = started[k].plugin
          /\ commandPlugins[i].module.config.category = "admin"}

\* the typed word names a command, and the first command it names is an
\* admin command
AdminTyped ==
  LET commandPlugins == getCommandPlugins(pluginLoader)
      hits == {i \in DOMAIN commandPlugins : CommandMatches(commandPlugins[i].module, Typed)}
  IN hits # {} /\ commandPlugins[Min(hits)].module.config.category = "admin"

\* C19: in message dispatch an admin command is started only for a sender in
\* config.security.adminUIDs; for any other sender the only reply is the
\* permission-denied one and no command is started.
C19_AdminOnly ==
  /\ \A d \in DOMAIN flows :
       (flows[d].cur # NoEvent /\ flows[d].cur.fn = "handleMessage" /\ AdminStarted(flows[d].cur.started) # {})
         => flows[d].cur.sender \in config.adminUIDs
  /\ (LookedUp /\ AdminStarted(lastEvent.started) # {}) => lastEvent.sender \in config.adminUIDs
  /\ (LookedUp /\ AdminTyped /\ lastEvent.sender \notin config.adminUIDs) =>
       /\ lastEvent.started = <<>>
       /\ lastEvent.what = "denied"
       /\ Range(lastEvent.sent) \subseteq {"denied"}

\* a sender outside the admin set typed an alias of setbal and got the refusal
C19_Witness ==
  /\ LookedUp
  /\ AdminTyped
  /\ lastEvent.sender \notin config.adminUIDs
  /\ lastEvent.ev.text = "/SetBalance u1 5"
  /\ lastEvent.sent = <<"denied">>

-----------------------------------------------------------------------------
(* Counters *)

\* the daily counter of the kind of the last event
OwnKind ==
  IF lastEvent.src = "changes" THEN "comments"
  ELSE IF lastEvent.ev.kind = "postback" THEN "postbacks"
  ELSE "messages"

\* C18: every non-duplicate event given to a handler has grown the daily
\* counter of its own kind (messages, postbacks or comments) by exactly one,
\* before the handler ran and whatever the handler did.
C18_CountedByKind ==
  (Left /\ lastEvent.fn \in Handlers /\ ~lastEvent.dup) => lastEvent.counted[OwnKind] = 1

-----------------------------------------------------------------------------
(* Acknowledgement *)

\* C20: a delivery has been answered to its caller before any of its events
\* reaches a handler, and stays answered whether its handlers return, reject
\* or never settle.
C20_AckBeforeHandlers ==
  /\ \A d \in DOMAIN flows : flows[d].phase # "idle" => flows[d].acked
  /\ Left => flows[lastEvent.flow].acked

\* a handler of one answered delivery has rejected while another answered
\* delivery still waits for its handler to settle
C20_Witness ==
  /\ Left
  /\ lastEvent.fn \in Handlers
  /\ lastEvent.outcome = "rejected"
  /\ flows[lastEvent.flow].acked
  /\ \E d \in DOMAIN flows : d # lastEvent.flow /\ flows[d].cur # NoEvent /\ flows[d].acked

-----------------------------------------------------------------------------
(* Deliveries whose entry carries no time *)

\* entry.time is undefined
NoTime == {-1}

UntimedShapes == {e \in MessagingShapes : e.kind = "message" /\ e.text \in {"/ping", "hello"}}

ReceiveUntimed(d) == webhook(d, NoTime, 0..MaxEvents)

NextUntimedEvent(d) == processMessagingEvent(d, Senders, UntimedShapes)

NextUntimed ==
  \/ Initialize
  \/ \E d \in 1..MaxDeliveries :
       \/ ReceiveUntimed(d)
       \/ NextUntimedEvent(d)
       \/ Finish(d)
       \/ PrefixSettled(d)
       \/ StartSettled(d)
       \/ SendSettled(d)

SpecUntimed == InitDispatch /\ [][NextUntimed]_vars

\* C21: an event whose identity key cannot be derived because its timestamp
\* is missing is treated as non-duplicate and given to its handler, also
\* when it is the second such event of its sender.
C21_DedupFailsOpen ==
  (Left /\ lastEvent.time \in NoTime) => (~lastEvent.dup /\ lastEvent.fn \in Handlers)

-----------------------------------------------------------------------------
(* One delivery of postbacks *)

PostbackPayloads == {RpsRaw, "NOPE", "GAME_RPS", "7", "null"}

PostbackShapes ==
  { [kind |-> "postback", text |-> "", attachments |-> <<>>, quick_reply |-> <<>>, payload |-> raw] :
      raw \in PostbackPayloads }

NextPostbackEvent == processMessagingEvent(1, Senders, PostbackShapes)

InitPostbacks ==
  /\ Constructed
  /\ config = DefaultConfig
  /\ disk = [DefaultDisk EXCEPT !.postbacks = <<HelpCategoryFile, LuckyFile, RpsFile>>]

NextPostbacks ==
  \/ Initialize
  \/ Receive(1)
  \/ NextPostbackEvent
  \/ Finish(1)
  \/ StartSettled(1)
  \/ SendSettled(1)

SpecPostbacks == InitPostbacks /\ [][NextPostbacks]_vars

\* the payload of the last postback: the parsed JSON value when the text is
\* JSON, else the text
Payload ==
  LET parsed == JSONparse(lastEvent.ev.payload)
  IN IF parsed.ok THEN parsed.value ELSE [t |-> "str", v |-> lastEvent.ev.payload]

\* the registered postback plugins whose matcher equals the payload, or the
\* action field of an object payload
Matching ==
  LET postbackPlugins == getPostbackPlugins(pluginLoader)
  IN {i \in DOMAIN postbackPlugins :
        \/ postbackPlugins[i].module.payload = Payload
        \/ /\ Payload.t = "obj"
           /\ postbackPlugins[i].module.payload = [t |-> "str", v |-> Payload.action]}

\* C22: a postback starts exactly the first registered plugin whose matcher
\* equals the parsed payload or its action field; when none matches nothing
\* is started, the unavailable-action reply is sent and the handler ends
\* without an error.
C22_PostbackDispatch ==
  (Left /\ lastEvent.fn = "handlePostback") =>
    IF Matching # {}
      THEN lastEvent.started =
             <<[plugin |-> getPostbackPlugins(pluginLoader)[Min(Matching)].meta.name, args |-> Payload]>>
      ELSE /\ lastEvent.started = <<>>
           /\ lastEvent.what = "unavailable"
           /\ lastEvent.sent = <<"unavailable">> => lastEvent.outcome = "returned"

-----------------------------------------------------------------------------
(* Comment reactors *)

\* the names of the registered comment reactors, in registration order
Reactors ==
  LET commentPlugins == getCommentPlugins(pluginLoader)
  IN [i \in DOMAIN commentPlugins |-> commentPlugins[i].meta.name]

\* C23: comment dispatch runs the registered reactors in registration order,
\* each at most once, and stops at the first that returns true: no reactor
\* after it is run and every reactor before it was run once; when none
\* returns true and none raises all are run, and the dispatcher sends nothing.
C23_FirstHandledStops ==
  (Left /\ lastEvent.fn = "handleComment") =>
    /\ lastEvent.plugins = Reactors
    /\ Len(lastEvent.tried) <= Len(Reactors)
    /\ lastEvent.tried = SubSeq(Reactors, 1, Len(lastEvent.tried))
    /\ lastEvent.handled # "" => lastEvent.handled = lastEvent.tried[Len(lastEvent.tried)]
    /\ (lastEvent.handled = "" /\ lastEvent.threw = {}) => lastEvent.tried = Reactors
    /\ lastEvent.handled = "" => lastEvent.sent = <<>>

\* the first of two reactors returned true and the second was not run
C23_Witness ==
  /\ Left
  /\ lastEvent.fn = "handleComment"
  /\ Len(lastEvent.plugins) = 2
  /\ lastEvent.handled = lastEvent.plugins[1]
  /\ lastEvent.tried = <<lastEvent.plugins[1]>>

-----------------------------------------------------------------------------
(* FacebookAPI.request *)

Methods == {"GET", "POST"}

\* error.response?.status of a failed call; 0 stands for an error without a
\* response (no answer, or the request could not be set up)
Statuses == {0, 400, 404, 500, 503}

ShouldRetry_AnyError(retries, status) == retries > 0

\* retries > 0 && error.response?.status >= 500
ShouldRetry(retries, status) == retries > 0 /\ status >= 500

\* request(method, endpoint, data, params) is called: the axios call is made
Request ==
  /\ request.pc = "idle"
  /\ \E m \in Methods :
       request' = [pc |-> "axios", method |-> m, retries |-> Retries, attempts |-> 1,
                   errors |-> <<>>, waits |-> <<>>]
  /\ UNCHANGED <<today, botState, users, flows, cpu, lastEvent>>
  /\ UNCHANGED trackerVars
  /\ UNCHANGED loaderVars

\* the axios call settles: response.data is returned, or the catch block
\* either waits for a retry or raises the error
AxiosSettled ==
  /\ request.pc = "axios"
  /\ \/ request' = [request EXCEPT !.pc = "returned"]
     \/ \E status \in Statuses :
          request' = [request EXCEPT !.errors = Append(@, status),
                                     !.pc = IF ShouldRetry(request.retries, status)
                                              THEN "delay" ELSE "raised"]
  /\ UNCHANGED <<today, botState, users, flows, cpu, lastEvent>>
  /\ UNCHANGED trackerVars
  /\ UNCHANGED loaderVars

\* the timer of this.delay(1000) fires: request calls itself with retries - 1
DelayElapsed ==
  /\ request.pc = "delay"
  /\ request' = [request EXCEPT !.pc = "axios", !.retries = @ - 1, !.attempts = @ + 1,
                                !.waits = Append(@, BackoffMs)]
  /\ UNCHANGED <<today, botState, users, flows, cpu, lastEvent>>
  /\ UNCHANGED trackerVars
  /\ UNCHANGED loaderVars

NextRequest == Request \/ AxiosSettled \/ DelayElapsed

\* every axios call settles (timeout: 30000) and every timer fires
SpecRequest ==
  /\ Init
  /\ [][NextRequest]_vars
  /\ WF_vars(AxiosSettled)
  /\ WF_vars(DelayElapsed)

Called == request.pc # "idle"

RequestSafe ==
  Called =>
    /\ request.attempts <= 1 + Retries
    /\ \A i \in 1..(request.attempts - 1) : request.errors[i] >= 500
    /\ request.waits = [i \in 1..(request.attempts - 1) |-> BackoffMs]
    /\ request.pc = "raised" =>
         /\ Len(request.errors) = request.attempts
         /\ request.errors[request.attempts] < 500 \/ request.attempts = 1 + Retries
    /\ request.pc = "returned" => Len(request.errors) = request.attempts - 1

-----------------------------------------------------------------------------
(* Startup with few or no plugins *)

\* plugin directories that are missing or empty, or hold only a module that
\* fails validation, next to directories with one valid plugin
StartupDisks ==
  { [commands |-> c, postbacks |-> p, comments |-> <<>>] :
      c \in {<<>>, <<BrokenFile>>, <<PingFile>>}, p \in {<<>>, <<RpsFile>>} }

StartupShapes == {e \in MessagingShapes : e.text = "/ping" \/ (e.kind = "postback" /\ e.payload = RpsRaw)}

NextStartupEvent == processMessagingEvent(1, Senders, StartupShapes)

InitStartup ==
  /\ Constructed
  /\ config = DefaultConfig
  /\ disk \in StartupDisks

NextStartup ==
  \/ Initialize
  \/ Receive(1)
  \/ NextStartupEvent
  \/ Finish(1)
  \/ PrefixSettled(1)
  \/ StartSettled(1)
  \/ SendSettled(1)

SpecStartup == InitStartup /\ [][NextStartup]_vars

\* the number of registered plugins: getStats().total
Total ==
  Len(pluginLoader.plugins["commands"]) + Len(pluginLoader.plugins["postbacks"])
    + Len(pluginLoader.plugins["comments"])

\* C25: the server accepts webhook events only if startup has loaded at
\* least one plugin.
C25_NoPluginsNoServing ==
  (\E d \in DOMAIN flows : flows[d].phase # "idle") => Total > 0

-----------------------------------------------------------------------------
(* Daily counters across date changes *)

Counters == {"messages", "comments", "postbacks", "duplicates"}

\* observer: the counters whose value includes events counted before the
\* last date change
Stale == IF lastCheck.kind = "daily" THEN lastCheck.stale ELSE {}

\* One call of a MessageTracker method that leaves the tracker as mt and
\* reads or increments the counters `touched`.
Daily(op, mt, touched) ==
  /\ \A k \in Counters : mt.dailyCounts[k] <= MaxCount
  /\ messageTracker' = mt
  /\ lastCheck' = [kind |-> "daily", op |-> op, touched |-> touched,
                   stale |-> IF op = "resetDailyCounters" \/ mt.lastReset # messageTracker.lastReset
                               THEN {} ELSE Stale]
  /\ UNCHANGED <<now, recorded>>
  /\ UNCHANGED loaderVars
  /\ UNCHANGED dispatchVars

DailyIsDuplicate ==
  LET r == isDuplicate(messageTracker, "u1", 1, now)
  IN Daily("isDuplicate", r.mt, IF r.ret THEN {"duplicates"} ELSE {})

DailyIsDuplicateComment ==
  LET r == isDuplicateComment(messageTracker, "u1_1", now)
  IN Daily("isDuplicateComment", r.mt, IF r.ret THEN {"duplicates"} ELSE {})

DailyIsDuplicatePostback ==
  LET r == isDuplicatePostback(messageTracker, "u1", [t |-> "num", v |-> 7], 1, now)
  IN Daily("isDuplicatePostback", r.mt, IF r.ret THEN {"duplicates"} ELSE {})

DailyTrack ==
  \E type \in {"message", "comment", "postback"} :
    Daily("track", track(messageTracker, "u1", 1, type, today), {type \o "s"})

DailyTrackComment == Daily("trackComment", trackComment(messageTracker, "u1_1", today), {"comments"})

DailyTrackPostback == Daily("trackPostback", trackPostback(messageTracker, today), {"postbacks"})

\* getStats / getTodayCount / getDuplicateCount: the counters are read
DailyGetStats == Daily("getStats", messageTracker, DOMAIN getStats(messageTracker))

\* the cron job '0 0 * * *' of the server, which runs on the host's clock
CronReset == Daily("resetDailyCounters", resetDailyCounters(messageTracker), {})

\* the date in config.bot.timezone changes
Midnight ==
  /\ today < MaxDays
  /\ today' = today + 1
  /\ lastCheck' = [kind |-> "daily", op |-> "midnight", touched |-> {},
                   stale |-> {k \in Counters : messageTracker.dailyCounts[k] > 0}]
  /\ UNCHANGED <<botState, users, flows, cpu, lastEvent, request>>
  /\ UNCHANGED <<now, messageTracker, recorded>>
  /\ UNCHANGED loaderVars

NextDaily ==
  \/ DailyIsDuplicate
  \/ DailyIsDuplicateComment
  \/ DailyIsDuplicatePostback
  \/ DailyTrack
  \/ DailyTrackComment
  \/ DailyTrackPostback
  \/ DailyGetStats
  \/ CronReset
  \/ Midnight

SpecDaily == Init /\ [][NextDaily]_vars

\* C26: once the date has changed, no counter that is read or incremented
\* still includes an event counted before the change.
C26_CountersResetOnDateChange ==
  lastCheck.kind = "daily" => lastCheck.touched \cap lastCheck.stale = {}

-----------------------------------------------------------------------------
(* One delivery of quick replies *)

QuickReplyShapes ==
  { [kind |-> "message", text |-> "/ping", attachments |-> <<"image">>, quick_reply |-> <<RpsRaw>>,
     payload |-> ""],
    [kind |-> "message", text |-> "hello", attachments |-> <<>>, quick_reply |-> <<"NOPE">>,
     payload |-> ""],
    [kind |-> "message", text |-> "/ping", attachments |-> <<"image">>, quick_reply |-> <<>>,
     payload |-> ""] }

NextQuickReplyEvent == processMessagingEvent(1, Senders, QuickReplyShapes)

NextQuickReply ==
  \/ Initialize
  \/ Receive(1)
  \/ NextQuickReplyEvent
  \/ Finish(1)
  \/ AttachSettled(1)
  \/ PrefixSettled(1)
  \/ StartSettled(1)
  \/ SendSettled(1)

SpecQuickReply == Init /\ [][NextQuickReply]_vars

\* what handling a postback with the quick reply's payload starts and says
AsPostback(raw, started, what) ==
  LET parsed == JSONparse(raw)
      payload == IF parsed.ok THEN parsed.value ELSE [t |-> "str", v |-> raw]
      postbackPlugins == getPostbackPlugins(pluginLoader)
      hits == {i \in DOMAIN postbackPlugins : PostbackMatches(postbackPlugins[i].module, payload)}
  IN IF hits # {}
       THEN started = <<[plugin |-> postbackPlugins[Min(hits)].meta.name, args |-> payload]>> /\ what = ""
       ELSE started = <<>> /\ what = "unavailable"

\* C27: a message with a quick-reply payload is handled as a postback with
\* that payload and nothing else: no attachment is acknowledged, the text is
\* not looked up as a command and no reply for a non-command text is sent.
C27_QuickReplyOnly ==
  /\ \A d \in DOMAIN flows :
       (flows[d].cur # NoEvent /\ flows[d].cur.ev.quick_reply # <<>>) =>
         /\ flows[d].cur.pc \in {"start", "send"}
         /\ flows[d].cur.sent = <<>>
         /\ AsPostback(flows[d].cur.ev.quick_reply[1], flows[d].cur.started, flows[d].cur.what)
  /\ (Left /\ lastEvent.fn = "handleMessage" /\ lastEvent.ev.quick_reply # <<>>) =>
       /\ AsPostback(lastEvent.ev.quick_reply[1], lastEvent.started, lastEvent.what)
       /\ Range(lastEvent.sent) \subseteq {"unavailable"}

\* a quick reply that came with an attachment and a command text has started
\* the postback plugin of its payload and nothing was sent
C27_Witness ==
  /\ Left
  /\ lastEvent.ev.quick_reply = <<RpsRaw>>
  /\ lastEvent.ev.attachments # <<>>
  /\ lastEvent.ev.text = "/ping"
  /\ lastEvent.started = <<[plugin |-> "rps", args |-> RpsPayload]>>
  /\ lastEvent.sent = <<>>

-----------------------------------------------------------------------------
(* Unhandled messaging events *)

\* the last event was a messaging event that is neither a message nor a postback
Unhandled == Left /\ lastEvent.src = "messaging" /\ lastEvent.ev.kind \notin {"message", "postback"}

\* C28: a read receipt, delivery receipt or other unhandled messaging event
\* reaches no handler and leaves the dedup cache and every daily counter as
\* they were.
C28_UnhandledLeavesNoTrace ==
  Unhandled =>
    /\ lastEvent.fn = "none"
    /\ lastEvent.cached = {}
    /\ \A k \in DOMAIN lastEvent.counted : lastEvent.counted[k] = 0

-----------------------------------------------------------------------------
(* Names and aliases across the registry *)

\* the registered command records
Registered == Range(getCommandPlugins(pluginLoader))

\* the tokens a registered command answers to: config.name and config.aliases
Tokens(p) == {p.module.config.name} \cup Range(p.module.config.aliases)

\* C30: in every registry state no alias of a registered command is the name
\* or an alias of another registered command.
C30_AliasesUnique ==
  \A p, q \in Registered :
    p.meta.name # q.meta.name => Range(p.module.config.aliases) \cap Tokens(q) = {}

-----------------------------------------------------------------------------
(* Dispatch while the registry changes *)

\* the files that may be written into the comment plugin directory
ReactorPool == {AutoReplyFile, DmFile, DmEditedFile}

\* a delivery whose entry holds feed changes only
ReceiveFeed == webhook(1, {1}, {0})

NextSnapshot ==
  \/ Initialize
  \/ ReloadAll
  \/ \E f \in ReactorPool :
       \/ FileAdded("comments", f)
       \/ FileChanged("comments", f)
       \/ FileUnlinked("comments", f)
  \/ ReceiveFeed
  \/ NextFeedEvent(1)
  \/ Finish(1)
  \/ RunSettled(1)

SpecSnapshot == InitDispatch /\ [][NextSnapshot]_vars

\* the reactors tried so far are the first ones of the list the dispatch obtained
TriesItsList(c) ==
  /\ Len(c.tried) <= Len(c.plugins)
  /\ c.tried = SubSeq(c.plugins, 1, Len(c.tried))

\* C29: a comment dispatch tries the reactors of the list it obtained when it
\* began, in that order, whatever reloadAll and the watcher do to the
\* registry while one of its reactors is suspended.
C29_DispatchKeepsItsList ==
  /\ \A d \in DOMAIN flows :
       (flows[d].cur # NoEvent /\ flows[d].cur.fn = "handleComment") => TriesItsList(flows[d].cur)
  /\ (Left /\ lastEvent.fn = "handleComment") =>
       /\ TriesItsList(lastEvent)
       /\ (lastEvent.handled = "" /\ lastEvent.threw = {}) => lastEvent.tried = lastEvent.plugins

\* a dispatch has run both reactors of its list although the registry no
\* longer holds that list
C29_Witness ==
  /\ Left
  /\ lastEvent.fn = "handleComment"
  /\ Len(lastEvent.plugins) = 2
  /\ lastEvent.tried = lastEvent.plugins
  /\ Reactors # lastEvent.plugins

-----------------------------------------------------------------------------
(* Two comment reactors from two files *)

\* the file names of the registered comment reactors, in registration order
ReactorFiles ==
  [i \in DOMAIN getCommentPlugins(pluginLoader) |-> getCommentPlugins(pluginLoader)[i].meta.name]

\* C31: once loading has finished, the two valid comment reactor files of
\* the directory are both registered, in load order.
C31_BothReactorsRegistered ==
  (initialized /\ loads = {}) =>
    ReactorFiles = [i \in DOMAIN disk.comments |-> disk.comments[i].file]

-----------------------------------------------------------------------------
(* Messages that carry their own timestamp *)

\* the number of messaging events taken from delivery d so far
Taken(d) == flows[d].size - flows[d].nChg - flows[d].nMsg

\* event.timestamp of the next messaging event of delivery d: every event has
\* a timestamp of its own, later than that of the event before it
OwnTimestamp(d) == 10 * d + Taken(d) + 1

\* text messages with event.timestamp set; processMessagingEvent never reads it
StampedShapes(d) ==
  { [kind |-> "message", text |-> txt, attachments |-> <<>>, quick_reply |-> <<>>, payload |-> "",
     timestamp |-> OwnTimestamp(d)] : txt \in {"/ping", "hello"} }

NextStampedEvent(d) == processMessagingEvent(d, Senders, StampedShapes(d))

\* one delivery: its messages are the messaging events of one entry
NextStamped ==
  \/ Initialize
  \/ Receive(1)
  \/ NextStampedEvent(1)
  \/ Finish(1)
  \/ PrefixSettled(1)
  \/ StartSettled(1)
  \/ SendSettled(1)

SpecStamped == InitDispatch /\ [][NextStamped]_vars

\* C32: a message whose own timestamp differs from that of every other
\* message is never taken for a duplicate: it is counted and given to
\* handleMessage, also when its sender has another message in the same entry.
C32_OwnTimestampIdentity ==
  (Left /\ lastEvent.src = "messaging" /\ lastEvent.ev.kind = "message") =>
    /\ ~lastEvent.dup
    /\ lastEvent.fn = "handleMessage"
    /\ lastEvent.counted.messages = 1

-----------------------------------------------------------------------------
(* An entry of pairwise different events *)

\* the payload of a postback by its position in the entry: no two postbacks
\* of the entry carry the same payload
PayloadAt == <<"NOPE", "GAME_RPS", RpsRaw, "7">>

\* the next event of the entry: a text message, or the postback of its position
DistinctShapes(d) ==
  { [kind |-> "message", text |-> "/ping", attachments |-> <<>>, quick_reply |-> <<>>, payload |-> ""],
    [kind |-> "postback", text |-> "", attachments |-> <<>>, quick_reply |-> <<>>,
     payload |-> PayloadAt[Taken(d) + 1]] }

NextDistinctEvent(d) == processMessagingEvent(d, Senders, DistinctShapes(d))

\* one delivery of one entry
NextDistinct ==
  \/ Initialize
  \/ Receive(1)
  \/ NextDistinctEvent(1)
  \/ Finish(1)
  \/ PrefixSettled(1)
  \/ StartSettled(1)
  \/ SendSettled(1)

SpecDistinct == InitPostbacks /\ [][NextDistinct]_vars

\* C33: a postback that no earlier postback equals in sender, payload and
\* timestamp is not suppressed, whatever text message or other postback of
\* its sender shares its timestamp: it is given to handlePostback.
C33_PostbackIdentity ==
  (Left /\ lastEvent.src = "messaging" /\ lastEvent.ev.kind = "postback") =>
    /\ ~lastEvent.dup
    /\ lastEvent.fn = "handlePostback"

-----------------------------------------------------------------------------
(* The four outcomes of a text message *)

\* a command, an admin command, an unregistered command and plain text
OutcomeTexts == {"/bal", "/setbal u1 5", "/nope", "hello"}

OutcomeShapes ==
  { [kind |-> "message", text |-> t, attachments |-> <<>>, quick_reply |-> <<>>, payload |-> ""] :
      t \in OutcomeTexts }

NextOutcomeEvent == processMessagingEvent(1, CommandSenders, OutcomeShapes)

NextOutcomes ==
  \/ Initialize
  \/ Receive(1)
  \/ NextOutcomeEvent
  \/ Finish(1)
  \/ PrefixSettled(1)
  \/ StartSettled(1)
  \/ SendSettled(1)

SpecOutcomes == InitCommands /\ [][NextOutcomes]_vars

\* a non-duplicate text message whose prefix lookup, plugin and reply all
\* went through without a failure of the store, the plugin or the network
Routed ==
  /\ Left
  /\ lastEvent.fn = "handleMessage"
  /\ lastEvent.ev.text # ""
  /\ lastEvent.ev.quick_reply = <<>>
  /\ lastEvent.started # <<>> \/ lastEvent.what # ""
  /\ lastEvent.threw = {}
  /\ lastEvent.what # "" => lastEvent.what \in Range(lastEvent.sent)

\* the outcomes that occurred for the last message
Outcomes ==
  (IF lastEvent.started # <<>> THEN {"start"} ELSE {})
    \cup (Range(lastEvent.sent) \cap {"denied", "unknown", "regular"})

\* C34: a text message without quick reply has exactly one of the four
\* outcomes (start invoked, permission denied, command not found, generic
\* reply), and the command-not-found and generic outcomes end without error.
C34_ExactlyOneOutcome ==
  Routed =>
    /\ Cardinality(Outcomes) = 1
    /\ Len(lastEvent.started) + Len(lastEvent.sent) = 1
    /\ (Outcomes \cap {"unknown", "regular"} # {}) =>
         lastEvent.outcome = "returned"

-----------------------------------------------------------------------------
(* The global prefix for a user with a prefix of their own *)

\* the argument lists the prefix command is started with: prefixes that the
\* text "/ping" does not start with, and prefixes that it starts with
CustomArgs == {<<"!!">>, <<"#">>, <<"/p">>, <<"/ping">>, <<"reset">>}

\* the user sets a prefix while no delivery is running
SetCustomPrefix == cpu = 0 /\ prefixCommand({"u1"}, CustomArgs)

\* the global prefix followed by the name of a registered command
GlobalShapes ==
  { [kind |-> "message", text |-> "/ping", attachments |-> <<>>, quick_reply |-> <<>>, payload |-> ""] }

NextGlobalEvent(d) == processMessagingEvent(d, {"u1"}, GlobalShapes)

NextCustom ==
  \/ Initialize
  \/ SetCustomPrefix
  \/ \E d \in 1..MaxDeliveries :
       \/ Receive(d)
       \/ NextGlobalEvent(d)
       \/ Finish(d)
       \/ PrefixSettled(d)
       \/ StartSettled(d)
       \/ SendSettled(d)

SpecCustom == InitDispatch /\ [][NextCustom]_vars

\* C35: whatever prefix the user has set, the message "/ping", whose prefix
\* was looked up, starts the command ping.
C35_GlobalPrefixStillWorks ==
  ( /\ Left
    /\ lastEvent.fn = "handleMessage"
    /\ lastEvent.ev.text = "/ping"
    /\ lastEvent.started # <<>> \/ lastEvent.what # "" ) =>
    /\ lastEvent.started # <<>>
    /\ lastEvent.started[1].plugin = "ping"

-----------------------------------------------------------------------------
(* The category quick replies of the help menu *)

UpperChar(c) ==
  IF \E i \in 1..Len(LowerLetters) : CharAt(LowerLetters, i) = c
    THEN CharAt(UpperLetters, CHOOSE i \in 1..Len(LowerLetters) : CharAt(LowerLetters, i) = c)
    ELSE c

RECURSIVE ToUpperCase(_)
ToUpperCase(text) ==
  IF text = "" THEN "" ELSE UpperChar(CharAt(text, 1)) \o ToUpperCase(Slice(text, 1))

\* Object.keys(commandsByCategory): plugin.config.category || 'general' of
\* the registered commands
commandsByCategory ==
  { IF p.module.config.category # "" THEN p.module.config.category ELSE "general" :
      p \in Range(getCommandPlugins(pluginLoader)) }

\* the payloads of the category quick replies that help.start sends
HelpQuickReplies == { "HELP_CATEGORY_" \o ToUpperCase(category) : category \in commandsByCategory }

\* a tap on a category quick reply, or a quick reply whose payload is the
\* declared matcher itself
HelpShapes ==
  { [kind |-> "message", text |-> "Utility", attachments |-> <<>>, quick_reply |-> <<raw>>, payload |-> ""] :
      raw \in HelpQuickReplies \cup {"HELP_CATEGORY_"} }

NextHelpEvent == processMessagingEvent(1, Senders, HelpShapes)

NextHelp ==
  \/ Initialize
  \/ Receive(1)
  \/ NextHelpEvent
  \/ Finish(1)
  \/ StartSettled(1)
  \/ SendSettled(1)

SpecHelp == InitDispatch /\ [][NextHelp]_vars

\* C36: a tap on a category quick reply of the help menu starts the
\* helpCategory plugin with the payload of the quick reply.
C36_HelpCategoryRouted ==
  ( /\ Left
    /\ lastEvent.fn = "handleMessage"
    /\ lastEvent.ev.quick_reply # <<>>
    /\ lastEvent.ev.quick_reply[1] \in HelpQuickReplies ) =>
    lastEvent.started = <<[plugin |-> "helpCategory",
                           args |-> [t |-> "str", v |-> lastEvent.ev.quick_reply[1]]]>>

-----------------------------------------------------------------------------
(* The held keys and the registered plugins *)

\* ping.js saved with another alias list: the same file name, another key
PingRealiasedFile == File("ping", CommandModule("ping", <<"alive">>, "utility", <<>>))

\* the files that may be written into each plugin directory
KeyPool ==
  [ commands  |-> {PingFile, PingRealiasedFile, SetbalFile},
    postbacks |-> {RpsFile},
    comments  |-> {DmFile} ]

NextKeys ==
  \/ Initialize
  \/ ReloadAll
  \/ \E type \in Range(PluginTypes) : \E f \in KeyPool[type] :
       \/ FileAdded(type, f)
       \/ FileChanged(type, f)
       \/ FileUnlinked(type, f)

SpecKeys == InitHotReload /\ [][NextKeys]_vars

\* the keys of the registered records, computed as unloadPlugin computes them
RegisteredKeys ==
  UNION { {getDuplicateKey(rec.module, type) : rec \in Range(getPluginsByType(pluginLoader, type))} :
            type \in Range(PluginTypes) }

\* C37: after any sequence of initial load, add, change, unlink and
\* reloadAll, the held duplicate-detection keys are exactly the keys of the
\* registered plugins.
C37_KeysMatchRegistry == pluginLoader.duplicates = RegisteredKeys

-----------------------------------------------------------------------------
(* The order of the events of one delivery *)

\* the events of delivery d that have not been taken from its loops
Remaining(fl) == fl.nMsg + fl.nChg

\* delivery d takes the next event of its entry in this step
Takes(d) == flows[d].phase = "running" /\ Remaining(flows'[d]) < Remaining(flows[d])

\* an event of delivery d has been taken and its handling has not ended
InProgress(d) == flows[d].cur # NoEvent

\* C38: a delivery takes its next event only when none of its events is in
\* progress, and takes a feed change only when its messaging events have all
\* been taken; no event is left in progress when the delivery is over.
C38_OneAtATimeInOrder ==
  /\ [][\A d \in DOMAIN flows :
          Takes(d) =>
            /\ ~InProgress(d)
            /\ flows'[d].nChg < flows[d].nChg => flows[d].nMsg = 0]_vars
  /\ [](\A d \in DOMAIN flows : flows[d].phase \in {"idle", "done"} => ~InProgress(d))

\* the feed change of a delivery of two events is in progress after the
\* message of that delivery was handled and left
C38_Witness ==
  /\ flows[1].size = 2
  /\ Remaining(flows[1]) = 0
  /\ InProgress(1)
  /\ flows[1].cur.src = "changes"
  /\ Left
  /\ lastEvent.flow = 1
  /\ lastEvent.src = "messaging"
  /\ lastEvent.fn = "handleMessage"

-----------------------------------------------------------------------------
(* The game postbacks and the balance of one user, with the user store on
   MongoDB: every call of the collection is a round trip that the handler
   awaits *)

FlipCoinFile == File("flipCoin", PostbackModule([t |-> "str", v |-> "GAME_FLIP_COIN"]))

GameShapes ==
  { [kind |-> "postback", text |-> "", attachments |-> <<>>, quick_reply |-> <<>>, payload |-> raw] :
      raw \in {"GAME_FLIP_COIN", RpsRaw} }

NextGameEvent(d) == processMessagingEvent(d, {"u1"}, GameShapes)

\* the coins a game may award: 1 for a flip; 3, 1 or 0 for a win, a draw or
\* a loss at rock-paper-scissors
Rewards(plugin) == IF plugin = "flipCoin" THEN {1} ELSE {0, 1, 3}

\* the game whose start the delivery is suspended in
Playing(d) == Awaiting(d, "start") /\ flows[d].cur.started[1].plugin \in {"flipCoin", "rps"}

\* start: the first awaited call settles. With a reward it is
\* userStore.getUser: the balance is read, newBalance computed and
\* setBalance called, which awaits getUser again; without a reward it is the
\* message with the result.
GameGetUser(d) ==
  /\ Playing(d)
  /\ "step" \notin DOMAIN flows[d].cur
  /\ \E reward \in Rewards(flows[d].cur.started[1].plugin), threw \in BOOLEAN :
       LET c == flows[d].cur
           us == getUser(c.sender)
       IN IF reward = 0
            THEN /\ UNCHANGED users
                 /\ AfterAwait(d, c, threw)
            ELSE /\ ~threw
                 /\ users' = us
                 /\ Suspend(d, flows[d], c @@ [step |-> "setBalance", reward |-> reward,
                                               newBalance |-> us[c.sender].balance + reward])
  /\ UNCHANGED <<today, request, botState>>
  /\ UNCHANGED trackerVars
  /\ UNCHANGED loaderVars

\* setBalance: its getUser settles and collection.updateOne is sent
GameSetBalance(d) ==
  /\ Playing(d)
  /\ "step" \in DOMAIN flows[d].cur
  /\ flows[d].cur.step = "setBalance"
  /\ users' = getUser(flows[d].cur.sender)
  /\ Suspend(d, flows[d], [flows[d].cur EXCEPT !.step = "updateOne"])
  /\ UNCHANGED <<today, request, botState>>
  /\ UNCHANGED trackerVars
  /\ UNCHANGED loaderVars

\* collection.updateOne({ uid }, { $set: { balance } }) settles: the stored
\* balance is newBalance, or the update failed and the balance is as it was;
\* the message with the result is sent
GameUpdateOne(d) ==
  /\ Playing(d)
  /\ "step" \in DOMAIN flows[d].cur
  /\ flows[d].cur.step = "updateOne"
  /\ \E failed \in BOOLEAN :
       LET c == flows[d].cur
       IN /\ users' = IF failed THEN users ELSE [users EXCEPT ![c.sender].balance = c.newBalance]
          /\ Suspend(d, flows[d], [c EXCEPT !.step = "send", !.reward = IF failed THEN 0 ELSE @])
  /\ UNCHANGED <<today, request, botState>>
  /\ UNCHANGED trackerVars
  /\ UNCHANGED loaderVars

\* the message with the result settles and start returns, or the apology of
\* start's catch block fails too and start rejects
GameSent(d) ==
  /\ Playing(d)
  /\ "step" \in DOMAIN flows[d].cur
  /\ flows[d].cur.step = "send"
  /\ \E threw \in BOOLEAN : AfterAwait(d, flows[d].cur, threw)
  /\ UNCHANGED <<today, request, botState, users>>
  /\ UNCHANGED trackerVars
  /\ UNCHANGED loaderVars

InitGames ==
  /\ Constructed
  /\ config = DefaultConfig
  /\ disk = [DefaultDisk EXCEPT !.postbacks = <<FlipCoinFile, RpsFile>>]

NextGames ==
  \/ Initialize
  \/ \E d \in 1..MaxDeliveries :
       \/ Receive(d)
       \/ NextGameEvent(d)
       \/ Finish(d)
       \/ GameGetUser(d)
       \/ GameSetBalance(d)
       \/ GameUpdateOne(d)
       \/ GameSent(d)

SpecGames == InitGames /\ [][NextGames]_vars

\* the update of delivery d has just been stored
Stored(d) ==
  /\ flows[d].cur # NoEvent
  /\ "step" \in DOMAIN flows[d].cur
  /\ flows[d].cur.step = "updateOne"
  /\ flows'[d].cur.step = "send"
  /\ flows'[d].cur.reward > 0

\* C39: every reward that is stored adds its amount to the balance the user
\* has at that moment, so that the final balance is the initial balance plus
\* the sum of the rewards granted, also when two games of the user overlap.
C39_NoLostReward ==
  [][\A d \in DOMAIN flows :
       Stored(d) =>
         users'[flows[d].cur.sender].balance
           = users[flows[d].cur.sender].balance + flows[d].cur.reward]_vars

-----------------------------------------------------------------------------
(* The signature of a webhook request *)

\* 'sha256=' + HMAC-SHA256 of the body under config.facebook.appSecret
expectedSignature == "sha256=hmac"

\* req.headers['x-hub-signature-256']: absent, the expected value, another one
Signatures == {"", expectedSignature, "sha256=other"}

\* verifyRequestSignature(req, res, buf): TRUE when it returns, FALSE when it
\* throws 'Invalid request signature'
verifyRequestSignature(signature) ==
  IF signature = "" THEN TRUE
  ELSE IF signature # expectedSignature THEN FALSE
  ELSE TRUE

\* a POST to the webhook path: bodyParser.json calls verify; when it throws
\* the request is refused and the route handler is not called
SignedPost(d) ==
  \E signature \in Signatures :
    IF verifyRequestSignature(signature)
      THEN webhookFrom(d, EntryTimes, 0..MaxEvents, IdleFlow @@ [signature |-> signature])
      ELSE /\ Serving
           /\ cpu = 0
           /\ flows[d].phase = "idle"
           /\ \A e \in 1..(d - 1) : flows[e].phase # "idle"
           /\ flows' = [flows EXCEPT ![d] = [IdleFlow EXCEPT !.phase = "refused"] @@ [signature |-> signature]]
           /\ UNCHANGED <<today, request, botState, users, lastEvent, cpu>>
           /\ UNCHANGED trackerVars
           /\ UNCHANGED loaderVars

NextSignedEvent(d) == processMessagingEvent(d, Senders, UntimedShapes)

NextSigned ==
  \/ Initialize
  \/ \E d \in 1..MaxDeliveries :
       \/ SignedPost(d)
       \/ NextSignedEvent(d)
       \/ Finish(d)
       \/ PrefixSettled(d)
       \/ StartSettled(d)
       \/ SendSettled(d)

SpecSigned == InitDispatch /\ [][NextSigned]_vars

\* the body of delivery d was given to processWebhookEvent
Dispatched(d) == flows[d].phase \in {"running", "done", "aborted"}

\* C40: a webhook body is given to event processing only when the request
\* carried the signature expected for it.
C40_OnlySignedBodies ==
  \A d \in DOMAIN flows : Dispatched(d) => flows[d].signature = expectedSignature

====
